---- MODULE Spec2Model ----
(***************************************************************************)
(* The aircraft behavior state machine (src/lib/aircraftBehavior.ts), the  *)
(* kinematic integrator (src/lib/aircraftMovement.ts) and the radar        *)
(* component's handlers that drive them (AirTrafficRadar: key presses,     *)
(* canvas clicks, the setInterval tick).                                   *)
(*                                                                         *)
(* Units.  Time passed to a tick (elapsedSeconds) is in whole seconds.     *)
(* Wall-clock readings (Date.now) are in milliseconds.  Headings and       *)
(* bearings are whole degrees.  Altitudes are in thirds of a foot, so that *)
(* the vertical rate of 500 ft/min = 25/3 ft per second is exact; the      *)
(* code's doubles are exact for tick lengths that are multiples of 3 s     *)
(* (the radar's own tick is 3 s).  Positions are points of a plane         *)
(* centred on KBUF, x east and y north, in 1/3600 nm, so that the distance *)
(* flown in a tick, groundSpeed * elapsedSeconds / 3600 nm, is exact.      *)
(***************************************************************************)
EXTENDS Integers, Sequences, FiniteSets, TLC

(***************************************************************************)
(* Bounds of the model.                                                    *)
(***************************************************************************)
\* ticks of one run of Spec
MaxTicks == 3
\* forced commands of one run of Spec
MaxCmds == 2
\* numbers drawn from one seeded stream in one run
MaxDraws == 2
\* ticks of one run of the radar's timer (SpecRadar)
MaxRadarTicks == 125
\* ticks that may precede the command in a run of SpecRadar
MaxLeadTicks == 2
\* ticks of one run of SpecStep
MaxStepTicks == 2
\* ticks of one run of SpecTrack
MaxTrackTicks == 3
\* operations on the two aircraft of one run of SpecPair
MaxPairOps == 3
\* degrees between two sampled headings of SpecStep
HeadingGrain == 18
\* feet between two sampled altitudes of SpecStep
AltGrain == 250

(***************************************************************************)
(* Program constants.                                                      *)
(***************************************************************************)
STANDARD_TURN_RATE == 3
DESCENT_GRADIENT == 3
DESCENT_RATE == 500
APPROACH_SPEED == 90
FIELD_ELEVATION == 728
CIRCUIT_ALTITUDE == 1000
MAX_HISTORY_LENGTH == 10
UPDATE_INTERVAL == 3000
\* stateElapsedTime >= 5000
DwellMs == 5000
\* thirds of a foot in a foot
AltScale == 3
\* plane units in a nautical mile
NmScale == 3600

Ft(feet) == feet * AltScale

\* An optional field: undefined, or a value.
None == <<>>
Some(v) == <<v>>
IsDefined(opt) == opt # None
Val(opt) == opt[1]

Abs(x) == IF x < 0 THEN -x ELSE x
Sign(x) == IF x > 0 THEN 1 ELSE IF x < 0 THEN -1 ELSE 0
Min(a, b) == IF a <= b THEN a ELSE b
Max(a, b) == IF a >= b THEN a ELSE b
\* JavaScript's %: the remainder has the sign of the dividend
JsMod(a, n) == IF a >= 0 THEN a % n ELSE -((-a) % n)
\* a / b rounded to the nearest integer (b > 0)
RoundDiv(a, b) == (2 * a + b) \div (2 * b)

AircraftState ==
  {"CRUISE", "TURNING", "CLIMBING", "DESCENDING", "APPROACH_TRANSIT", "FINAL_APPROACH"}

(***************************************************************************)
(* Geodesy (turf.destination, turf.bearing, turf.distance) around KBUF.     *)
(***************************************************************************)
\* 1000 * sin of x degrees, 0 <= x <= 180 (Bhaskara's rational approximation)
SinHalf(x) == (4000 * x * (180 - x)) \div (40500 - x * (180 - x))
Sin1000(deg) ==
  LET d == deg % 360
  IN  IF d <= 180 THEN SinHalf(d) ELSE -SinHalf(d - 180)
Cos1000(deg) == Sin1000(deg + 90)

\* the point distance (1/3600 nm) away from origin on bearing (degrees)
\* 2 * (earth radius) / tan(latitude of KBUF), in hundreds of 1/3600 nm: the
\* distance over which the meridians close in by their own spacing
MeridianConvergence == 266163

\* turf.destination: the end of the great circle that leaves origin on bearing,
\* to second order in the distance.  lon counts nautical miles east at KBUF's
\* latitude, so going east or west bends the track toward the equator and the
\* meridians lie closer together further north.
Destination(origin, distance, bearing) ==
  LET east == RoundDiv(distance * Sin1000(bearing), 1000)
      north == RoundDiv(distance * Cos1000(bearing), 1000)
  IN  [lon |-> origin.lon + east
                 + RoundDiv(east * RoundDiv(2 * origin.lat + north, 100), MeridianConvergence),
       lat |-> origin.lat + north
                 - RoundDiv(RoundDiv(east, 10) * RoundDiv(east, 10), MeridianConvergence)]

\* atan(n / m) in degrees for 0 <= n <= m, m > 0
AtanDeg(n, m) ==
  LET z == (1000 * n) \div m
  IN  RoundDiv(45000 * z + (1564 * z * (1000 - z)) \div 100, 1000000)

\* turf.bearing: degrees from north, clockwise positive, in [-180, 180]
Bearing(from, to) ==
  LET dx == to.lon - from.lon
      dy == to.lat - from.lat
      ax == Abs(dx)
      ay == Abs(dy)
      theta == IF ax = 0 /\ ay = 0 THEN 0
               ELSE IF ax <= ay THEN AtanDeg(ax, ay)
               ELSE 90 - AtanDeg(ay, ax)
  IN  IF dy >= 0 THEN (IF dx >= 0 THEN theta ELSE -theta)
      ELSE (IF dx >= 0 THEN 180 - theta ELSE theta - 180)

\* turf.distance, as the square of the distance in hundredths of a nautical mile
DistanceSq100(from, to) ==
  LET dx == (to.lon - from.lon) \div (NmScale \div 100)
      dy == (to.lat - from.lat) \div (NmScale \div 100)
  IN  dx * dx + dy * dy

(***************************************************************************)
(* airports.json: each airport's first runway (start point, heading).      *)
(***************************************************************************)
airportData ==
  [KBUF |-> [runways |-> <<[id |-> "05", heading |-> 53,
                            start |-> [lon |-> -2400, lat |-> -1800]]>>],
   KIAG |-> [runways |-> <<[id |-> "10L", heading |-> 100,
                            start |-> [lon |-> -36000, lat |-> 36000]]>>]]

(***************************************************************************)
(* The seeded generator: a stream of numbers fixed by the seed, and the    *)
(* number of them the generator has handed out.  A draw n stands for the   *)
(* double n / RngDen in [0, 1).                                            *)
(***************************************************************************)
RngDen == 20
DrawSet == {5, 19}
\* the k-th number (1-based) of the stream strm
Draw(strm, k) == strm[k]
\* Math.floor(rng() * n)
FloorTimes(d, n) == (d * n) \div RngDen

(***************************************************************************)
(* aircraftBehavior.ts                                                     *)
(***************************************************************************)
\* stateTransitions with a CRUISE row that leaves one draw in twenty to no entry
stateTransitions_short ==
  [CRUISE |-> <<[nextState |-> "CRUISE", probability |-> 90],
                [nextState |-> "TURNING", probability |-> 5]>>,
   TURNING |-> <<[nextState |-> "CRUISE", probability |-> 10],
                 [nextState |-> "TURNING", probability |-> 90]>>,
   CLIMBING |-> <<[nextState |-> "CRUISE", probability |-> 20],
                  [nextState |-> "CLIMBING", probability |-> 80]>>,
   DESCENDING |-> <<[nextState |-> "CRUISE", probability |-> 20],
                    [nextState |-> "DESCENDING", probability |-> 80]>>,
   APPROACH_TRANSIT |-> <<[nextState |-> "APPROACH_TRANSIT", probability |-> 100]>>,
   FINAL_APPROACH |-> <<[nextState |-> "FINAL_APPROACH", probability |-> 100]>>]

\* Markov chain transition probabilities from each state, in percent
stateTransitions ==
  [CRUISE |-> <<[nextState |-> "CRUISE", probability |-> 95],
                [nextState |-> "TURNING", probability |-> 5]>>,
   TURNING |-> <<[nextState |-> "CRUISE", probability |-> 10],
                 [nextState |-> "TURNING", probability |-> 90]>>,
   CLIMBING |-> <<[nextState |-> "CRUISE", probability |-> 20],
                  [nextState |-> "CLIMBING", probability |-> 80]>>,
   DESCENDING |-> <<[nextState |-> "CRUISE", probability |-> 20],
                    [nextState |-> "DESCENDING", probability |-> 80]>>,
   APPROACH_TRANSIT |-> <<[nextState |-> "APPROACH_TRANSIT", probability |-> 100]>>,
   FINAL_APPROACH |-> <<[nextState |-> "FINAL_APPROACH", probability |-> 100]>>]

\* calculateApproachFix with the fix laid out along the runway heading
calculateApproachFix_ahead(runway, altitude) ==
  LET altitudeAboveField == altitude - Ft(FIELD_ELEVATION)
      distanceRequired ==
        RoundDiv(altitudeAboveField * DESCENT_GRADIENT * NmScale, 1000 * AltScale)
      approachPoint == Destination(runway.start, distanceRequired, runway.heading)
  IN  [lon |-> approachPoint.lon, lat |-> approachPoint.lat, altitude |-> altitude]

calculateApproachFix(runway, altitude) ==
  LET altitudeAboveField == altitude - Ft(FIELD_ELEVATION)
      \* (altitudeAboveField / 1000) * DESCENT_GRADIENT nautical miles
      distanceRequired ==
        RoundDiv(altitudeAboveField * DESCENT_GRADIENT * NmScale, 1000 * AltScale)
      approachPoint ==
        Destination(runway.start, distanceRequired, JsMod(runway.heading + 180, 360))
  IN  [lon |-> approachPoint.lon, lat |-> approachPoint.lat, altitude |-> altitude]

\* random: the number the generator hands out for the airport choice
planApproach(currentAltitude, random) ==
  LET airports == <<"KBUF", "KIAG">>
      selectedAirport == airports[FloorTimes(random, Len(airports)) + 1]
      runway == airportData[selectedAirport].runways[1]
  IN  [airport |-> selectedAirport,
       runway |-> [id |-> runway.id,
                   heading |-> runway.heading,
                   elevation |-> Ft(FIELD_ELEVATION),
                   threshold |-> [lat |-> runway.start.lat, lon |-> runway.start.lon]],
       approachFix |-> calculateApproachFix(runway, currentAltitude)]

\* now: the reading of Date.now()
createInitialBehavior(currentTime) ==
  [currentState |-> "CRUISE",
   targetHeading |-> None,
   targetAltitude |-> None,
   stateStartTime |-> currentTime,
   rng |-> 0,
   approachPlan |-> None,
   position |-> [lon |-> 0, lat |-> 0]]

\* the first entry of the row from index i on whose cumulative probability
\* exceeds the draw; the current state when there is none
RECURSIVE walkTransitions(_, _, _, _, _)
walkTransitions(transitions, i, cumulativeProbability, random, currentState) ==
  IF i > Len(transitions) THEN currentState
  ELSE LET cumulative == cumulativeProbability + transitions[i].probability
       IN  IF random * 100 < cumulative * RngDen
           THEN transitions[i].nextState
           ELSE walkTransitions(transitions, i + 1, cumulative, random, currentState)

selectNextState(currentState, random) ==
  walkTransitions(stateTransitions[currentState], 1, 0, random, currentState)

\* calculateNewHeading without the clamp to the target
calculateNewHeading_unclamped(currentHeading, targetHeading, elapsedSeconds) ==
  JsMod(currentHeading
          + Sign(JsMod(targetHeading - currentHeading + 540, 360) - 180)
            * STANDARD_TURN_RATE * elapsedSeconds
          + 360, 360)

calculateNewHeading(currentHeading, targetHeading, elapsedSeconds) ==
  LET turnAmount == STANDARD_TURN_RATE * elapsedSeconds
      headingDiff == JsMod(targetHeading - currentHeading + 540, 360) - 180
  IN  IF Abs(headingDiff) <= turnAmount
      THEN targetHeading
      ELSE JsMod(currentHeading + Sign(headingDiff) * turnAmount + 360, 360)

NoUpdate ==
  [newHeading |-> None, newAltitude |-> None, newState |-> None, newGroundSpeed |-> None]

\* updateBehavior, lines 206-222: plan is what planApproach returned
transitState(behaviorState, plan, currentTime) ==
  [state |-> [behaviorState EXCEPT
                !.currentState = "APPROACH_TRANSIT",
                !.stateStartTime = currentTime,
                !.rng = @ + 2,
                !.approachPlan = Some(plan),
                !.targetHeading = Some(Bearing(behaviorState.position, plan.approachFix)),
                !.targetAltitude = Some(plan.approachFix.altitude)],
   update |-> [NoUpdate EXCEPT !.newState = Some("APPROACH_TRANSIT"),
                               !.newGroundSpeed = Some(APPROACH_SPEED)]]

\* updateBehavior, lines 193-223: the state drawn differs from the current one;
\* second: the next number of the generator
enterState(behaviorState, nextState, second, currentAltitude, currentTime) ==
  IF nextState = "TURNING"
  THEN [state |-> [behaviorState EXCEPT
                     !.currentState = nextState,
                     !.stateStartTime = currentTime,
                     !.rng = @ + 2,
                     !.targetHeading = Some(FloorTimes(second, 36) * 10)],
        update |-> [NoUpdate EXCEPT !.newState = Some(nextState)]]
  ELSE IF nextState = "APPROACH_TRANSIT"
  THEN transitState(behaviorState, planApproach(currentAltitude, second), currentTime)
  ELSE [state |-> [behaviorState EXCEPT
                     !.currentState = nextState,
                     !.stateStartTime = currentTime,
                     !.rng = @ + 1],
        update |-> [NoUpdate EXCEPT !.newState = Some(nextState)]]

\* updateBehavior, lines 191-224: nextState is the state selectNextState drew
drawnTransition(behaviorState, nextState, second, currentAltitude, currentTime) ==
  IF nextState = behaviorState.currentState
  THEN [state |-> [behaviorState EXCEPT !.rng = @ + 1], update |-> NoUpdate]
  ELSE enterState(behaviorState, nextState, second, currentAltitude, currentTime)

\* randomTransition without the dwell time in CRUISE
randomTransition_undwelled(behaviorState, currentAltitude, currentTime, strm) ==
  IF behaviorState.currentState = "CRUISE"
  THEN drawnTransition(behaviorState,
                       selectNextState(behaviorState.currentState,
                                       Draw(strm, behaviorState.rng + 1)),
                       Draw(strm, behaviorState.rng + 2),
                       currentAltitude, currentTime)
  ELSE [state |-> behaviorState, update |-> NoUpdate]

\* updateBehavior, lines 185-224: the random transition out of CRUISE;
\* strm: the numbers of the seed's stream
randomTransition(behaviorState, currentAltitude, currentTime, strm) ==
  IF currentTime - behaviorState.stateStartTime >= DwellMs
     /\ behaviorState.currentState = "CRUISE"
  THEN drawnTransition(behaviorState,
                       selectNextState(behaviorState.currentState,
                                       Draw(strm, behaviorState.rng + 1)),
                       Draw(strm, behaviorState.rng + 2),
                       currentAltitude, currentTime)
  ELSE [state |-> behaviorState, update |-> NoUpdate]

\* turned without the slow-down to the approach speed on entering FINAL_APPROACH
turned_keepsSpeed(behaviorState, update, newHeading, currentTime) ==
  IF newHeading # Val(behaviorState.targetHeading)
  THEN [state |-> behaviorState,
        update |-> [update EXCEPT !.newHeading = Some(newHeading)]]
  ELSE IF IsDefined(behaviorState.approachPlan)
  THEN [state |-> [behaviorState EXCEPT !.currentState = "FINAL_APPROACH",
                                        !.stateStartTime = currentTime],
        update |-> [update EXCEPT !.newHeading = Some(newHeading),
                                  !.newState = Some("FINAL_APPROACH")]]
  ELSE [state |-> [behaviorState EXCEPT !.currentState = "CRUISE",
                                        !.targetHeading = None,
                                        !.stateStartTime = currentTime],
        update |-> [update EXCEPT !.newHeading = Some(newHeading),
                                  !.newState = Some("CRUISE")]]

\* turned that leaves update.newState alone when the random transition of the
\* same tick has already set it
turned_firstStateWins(behaviorState, update, newHeading, currentTime) ==
  IF newHeading # Val(behaviorState.targetHeading)
  THEN [state |-> behaviorState,
        update |-> [update EXCEPT !.newHeading = Some(newHeading)]]
  ELSE IF IsDefined(behaviorState.approachPlan)
  THEN [state |-> [behaviorState EXCEPT !.currentState = "FINAL_APPROACH",
                                        !.stateStartTime = currentTime],
        update |-> [update EXCEPT !.newHeading = Some(newHeading),
                                  !.newState = IF IsDefined(@) THEN @ ELSE Some("FINAL_APPROACH"),
                                  !.newGroundSpeed = Some(APPROACH_SPEED)]]
  ELSE [state |-> [behaviorState EXCEPT !.currentState = "CRUISE",
                                        !.targetHeading = None,
                                        !.stateStartTime = currentTime],
        update |-> [update EXCEPT !.newHeading = Some(newHeading),
                                  !.newState = IF IsDefined(@) THEN @ ELSE Some("CRUISE")]]

\* case TURNING, lines 231-254: newHeading is what calculateNewHeading returned
turned(behaviorState, update, newHeading, currentTime) ==
  IF newHeading # Val(behaviorState.targetHeading)
  THEN [state |-> behaviorState,
        update |-> [update EXCEPT !.newHeading = Some(newHeading)]]
  ELSE IF IsDefined(behaviorState.approachPlan)
  THEN [state |-> [behaviorState EXCEPT !.currentState = "FINAL_APPROACH",
                                        !.stateStartTime = currentTime],
        update |-> [update EXCEPT !.newHeading = Some(newHeading),
                                  !.newState = Some("FINAL_APPROACH"),
                                  !.newGroundSpeed = Some(APPROACH_SPEED)]]
  ELSE [state |-> [behaviorState EXCEPT !.currentState = "CRUISE",
                                        !.targetHeading = None,
                                        !.stateStartTime = currentTime],
        update |-> [update EXCEPT !.newHeading = Some(newHeading),
                                  !.newState = Some("CRUISE")]]

turningStep(behaviorState, update, currentHeading, elapsedSeconds, currentTime) ==
  IF IsDefined(behaviorState.targetHeading)
  THEN turned(behaviorState, update,
              calculateNewHeading(currentHeading, Val(behaviorState.targetHeading),
                                  elapsedSeconds),
              currentTime)
  ELSE [state |-> behaviorState, update |-> update]

\* climbed without the Math.min that stops the climb at the target
climbed_unclamped(behaviorState, update, newAltitude, currentTime) ==
  IF newAltitude >= Val(behaviorState.targetAltitude)
  THEN [state |-> [behaviorState EXCEPT !.currentState = "CRUISE",
                                        !.targetAltitude = None,
                                        !.stateStartTime = currentTime],
        update |-> [update EXCEPT !.newAltitude = Some(newAltitude),
                                  !.newState = Some("CRUISE"),
                                  !.newGroundSpeed = Some(95)]]
  ELSE [state |-> behaviorState,
        update |-> [update EXCEPT !.newAltitude = Some(newAltitude)]]

\* case CLIMBING, lines 264-277: newAltitude = currentAltitude + altitudeChange
climbed(behaviorState, update, newAltitude, currentTime) ==
  IF newAltitude >= Val(behaviorState.targetAltitude)
  THEN [state |-> [behaviorState EXCEPT !.currentState = "CRUISE",
                                        !.targetAltitude = None,
                                        !.stateStartTime = currentTime],
        update |-> [update EXCEPT
                      !.newAltitude = Some(Min(newAltitude, Val(behaviorState.targetAltitude))),
                      !.newState = Some("CRUISE"),
                      !.newGroundSpeed = Some(95)]]
  ELSE [state |-> behaviorState,
        update |-> [update EXCEPT
                      !.newAltitude = Some(Min(newAltitude, Val(behaviorState.targetAltitude)))]]

\* (rate * elapsedSeconds) / 60 for a rate in feet per minute
altitudeChange(rate, elapsedSeconds) == (Ft(rate) * elapsedSeconds) \div 60

climbingStep(behaviorState, update, currentAltitude, elapsedSeconds, currentTime) ==
  IF IsDefined(behaviorState.targetAltitude)
  THEN climbed(behaviorState, update,
               currentAltitude + altitudeChange(500, elapsedSeconds), currentTime)
  ELSE [state |-> behaviorState, update |-> update]

\* descended without the return to the cruise speed at the target
descended_keepsSpeed(behaviorState, update, newAltitude, currentTime) ==
  IF newAltitude <= Val(behaviorState.targetAltitude)
  THEN [state |-> [behaviorState EXCEPT !.currentState = "CRUISE",
                                        !.targetAltitude = None,
                                        !.stateStartTime = currentTime],
        update |-> [update EXCEPT
                      !.newAltitude = Some(Max(newAltitude, Val(behaviorState.targetAltitude))),
                      !.newState = Some("CRUISE")]]
  ELSE [state |-> behaviorState,
        update |-> [update EXCEPT
                      !.newAltitude = Some(Max(newAltitude, Val(behaviorState.targetAltitude)))]]

\* case DESCENDING, lines 287-300: newAltitude = currentAltitude - altitudeChange
descended(behaviorState, update, newAltitude, currentTime) ==
  IF newAltitude <= Val(behaviorState.targetAltitude)
  THEN [state |-> [behaviorState EXCEPT !.currentState = "CRUISE",
                                        !.targetAltitude = None,
                                        !.stateStartTime = currentTime],
        update |-> [update EXCEPT
                      !.newAltitude = Some(Max(newAltitude, Val(behaviorState.targetAltitude))),
                      !.newState = Some("CRUISE"),
                      !.newGroundSpeed = Some(95)]]
  ELSE [state |-> behaviorState,
        update |-> [update EXCEPT
                      !.newAltitude = Some(Max(newAltitude, Val(behaviorState.targetAltitude)))]]

descendingStep(behaviorState, update, currentAltitude, elapsedSeconds, currentTime) ==
  IF IsDefined(behaviorState.targetAltitude)
  THEN descended(behaviorState, update,
                 currentAltitude - altitudeChange(500, elapsedSeconds), currentTime)
  ELSE [state |-> behaviorState, update |-> update]

\* case APPROACH_TRANSIT, lines 305-324
approachTransitStep(behaviorState, update, currentTime) ==
  IF IsDefined(behaviorState.approachPlan)
     \* distanceToFix < 0.5
     /\ DistanceSq100(behaviorState.position,
                      Val(behaviorState.approachPlan).approachFix) < 50 * 50
  THEN [state |-> [behaviorState EXCEPT
                     !.currentState = "TURNING",
                     !.targetHeading = Some(Val(behaviorState.approachPlan).runway.heading),
                     !.stateStartTime = currentTime],
        update |-> [update EXCEPT !.newState = Some("TURNING")]]
  ELSE [state |-> behaviorState, update |-> update]

\* landed without the Math.max that floors the descent at the runway elevation
landed_unfloored(behaviorState, update, newAltitude, elevation, currentTime) ==
  IF newAltitude <= elevation
  THEN [state |-> [behaviorState EXCEPT
                     !.currentState = "CLIMBING",
                     !.targetAltitude = Some(elevation + Ft(CIRCUIT_ALTITUDE)),
                     !.approachPlan = None,
                     !.stateStartTime = currentTime],
        update |-> [update EXCEPT !.newAltitude = Some(newAltitude),
                                  !.newState = Some("CLIMBING"),
                                  !.newGroundSpeed = Some(95)]]
  ELSE [state |-> behaviorState,
        update |-> [update EXCEPT !.newAltitude = Some(newAltitude)]]

\* landed without clearing approachPlan on touchdown
landed_keepsPlan(behaviorState, update, newAltitude, elevation, currentTime) ==
  IF newAltitude <= elevation
  THEN [state |-> [behaviorState EXCEPT
                     !.currentState = "CLIMBING",
                     !.targetAltitude = Some(elevation + Ft(CIRCUIT_ALTITUDE)),
                     !.stateStartTime = currentTime],
        update |-> [update EXCEPT !.newAltitude = Some(Max(newAltitude, elevation)),
                                  !.newState = Some("CLIMBING"),
                                  !.newGroundSpeed = Some(95)]]
  ELSE [state |-> behaviorState,
        update |-> [update EXCEPT !.newAltitude = Some(Max(newAltitude, elevation))]]

\* case FINAL_APPROACH, lines 335-352: newAltitude = currentAltitude - altitudeChange
landed(behaviorState, update, newAltitude, elevation, currentTime) ==
  IF newAltitude <= elevation
  THEN [state |-> [behaviorState EXCEPT
                     !.currentState = "CLIMBING",
                     !.targetAltitude = Some(elevation + Ft(CIRCUIT_ALTITUDE)),
                     !.approachPlan = None,
                     !.stateStartTime = currentTime],
        update |-> [update EXCEPT !.newAltitude = Some(Max(newAltitude, elevation)),
                                  !.newState = Some("CLIMBING"),
                                  !.newGroundSpeed = Some(95)]]
  ELSE [state |-> behaviorState,
        update |-> [update EXCEPT !.newAltitude = Some(Max(newAltitude, elevation))]]

finalApproachStep(behaviorState, update, currentAltitude, elapsedSeconds, currentTime) ==
  IF IsDefined(behaviorState.approachPlan)
  THEN landed(behaviorState, update,
              currentAltitude - altitudeChange(DESCENT_RATE, elapsedSeconds),
              Val(behaviorState.approachPlan).runway.elevation, currentTime)
  ELSE [state |-> behaviorState, update |-> update]

\* updateBehavior, lines 226-357: the switch, on the state after the random transition
stateBehavior(drawn, currentHeading, currentAltitude, elapsedSeconds, currentTime) ==
  CASE drawn.state.currentState = "TURNING" ->
         turningStep(drawn.state, drawn.update, currentHeading, elapsedSeconds, currentTime)
    [] drawn.state.currentState = "CLIMBING" ->
         climbingStep(drawn.state, drawn.update, currentAltitude, elapsedSeconds, currentTime)
    [] drawn.state.currentState = "DESCENDING" ->
         descendingStep(drawn.state, drawn.update, currentAltitude, elapsedSeconds, currentTime)
    [] drawn.state.currentState = "APPROACH_TRANSIT" ->
         approachTransitStep(drawn.state, drawn.update, currentTime)
    [] drawn.state.currentState = "FINAL_APPROACH" ->
         finalApproachStep(drawn.state, drawn.update, currentAltitude, elapsedSeconds,
                           currentTime)
    [] OTHER -> drawn

updateBehavior(behaviorState, currentHeading, currentAltitude, elapsedSeconds, currentTime, strm) ==
  stateBehavior(randomTransition(behaviorState, currentAltitude, currentTime, strm),
                currentHeading, currentAltitude, elapsedSeconds, currentTime)

\* forceTurn without the reset of stateStartTime
forceTurn_keepsClock(behaviorState, currentHeading, currentTime) ==
  [state |-> [behaviorState EXCEPT
                !.currentState = "TURNING",
                !.targetHeading = Some(JsMod(currentHeading + 180, 360))],
   update |-> [NoUpdate EXCEPT !.newState = Some("TURNING")]]

\* forceTurn without the wrap of the reciprocal heading into [0, 360)
forceTurn_unwrapped(behaviorState, currentHeading, currentTime) ==
  [state |-> [behaviorState EXCEPT
                !.currentState = "TURNING",
                !.targetHeading = Some(currentHeading + 180),
                !.stateStartTime = currentTime],
   update |-> [NoUpdate EXCEPT !.newState = Some("TURNING")]]

forceTurn(behaviorState, currentHeading, currentTime) ==
  [state |-> [behaviorState EXCEPT
                !.currentState = "TURNING",
                !.targetHeading = Some(JsMod(currentHeading + 180, 360)),
                !.stateStartTime = currentTime],
   update |-> [NoUpdate EXCEPT !.newState = Some("TURNING")]]

\* forceLanding, lines 388-412: plan is what planApproach returned
landingState(behaviorState, plan, currentTime) ==
  [state |-> [behaviorState EXCEPT
                !.currentState = "TURNING",
                !.stateStartTime = currentTime,
                !.rng = @ + 1,
                !.approachPlan = Some(plan),
                !.targetHeading = Some(Bearing(behaviorState.position, plan.approachFix)),
                !.targetAltitude = Some(plan.approachFix.altitude)],
   update |-> [NoUpdate EXCEPT !.newState = Some("TURNING")]]

forceLanding(behaviorState, currentAltitude, currentTime, strm) ==
  landingState(behaviorState,
               planApproach(currentAltitude, Draw(strm, behaviorState.rng + 1)),
               currentTime)

\* target: the point [lon, lat] clicked
\* forceFlyTo with the bearing taken from the target back to the aircraft
forceFlyTo_reversed(behaviorState, target, currentTime) ==
  [state |-> [behaviorState EXCEPT
                !.currentState = "TURNING",
                !.stateStartTime = currentTime,
                !.targetHeading = Some(Bearing(target, behaviorState.position))],
   update |-> [NoUpdate EXCEPT !.newState = Some("TURNING")]]

\* forceFlyTo that enters TURNING without a target heading
forceFlyTo_untargeted(behaviorState, target, currentTime) ==
  [state |-> [behaviorState EXCEPT
                !.currentState = "TURNING",
                !.stateStartTime = currentTime],
   update |-> [NoUpdate EXCEPT !.newState = Some("TURNING")]]

forceFlyTo(behaviorState, target, currentTime) ==
  [state |-> [behaviorState EXCEPT
                !.currentState = "TURNING",
                !.stateStartTime = currentTime,
                !.targetHeading = Some(Bearing(behaviorState.position, target))],
   update |-> [NoUpdate EXCEPT !.newState = Some("TURNING")]]

\* forceClimb with a target 500 ft above the current altitude
forceClimb_half(behaviorState, currentAltitude, currentTime) ==
  [state |-> [behaviorState EXCEPT
                !.currentState = "CLIMBING",
                !.stateStartTime = currentTime,
                !.targetAltitude = Some(currentAltitude + Ft(500))],
   update |-> [NoUpdate EXCEPT !.newState = Some("CLIMBING"),
                               !.newGroundSpeed = Some(90)]]

forceClimb(behaviorState, currentAltitude, currentTime) ==
  [state |-> [behaviorState EXCEPT
                !.currentState = "CLIMBING",
                !.stateStartTime = currentTime,
                !.targetAltitude = Some(currentAltitude + Ft(1000))],
   update |-> [NoUpdate EXCEPT !.newState = Some("CLIMBING"),
                               !.newGroundSpeed = Some(90)]]

\* forceDescent without the floor at 500 ft above the field
forceDescent_unfloored(behaviorState, currentAltitude, currentTime) ==
  [state |-> [behaviorState EXCEPT
                !.currentState = "DESCENDING",
                !.stateStartTime = currentTime,
                !.targetAltitude = Some(currentAltitude - Ft(1000))],
   update |-> [NoUpdate EXCEPT !.newState = Some("DESCENDING"),
                               !.newGroundSpeed = Some(90)]]

forceDescent(behaviorState, currentAltitude, currentTime) ==
  [state |-> [behaviorState EXCEPT
                !.currentState = "DESCENDING",
                !.stateStartTime = currentTime,
                !.targetAltitude =
                   Some(Max(currentAltitude - Ft(1000), Ft(FIELD_ELEVATION + 500)))],
   update |-> [NoUpdate EXCEPT !.newState = Some("DESCENDING"),
                               !.newGroundSpeed = Some(90)]]

(***************************************************************************)
(* aircraftMovement.ts                                                     *)
(***************************************************************************)
Take(seq, n) == SubSeq(seq, 1, Min(n, Len(seq)))

\* a field of the behavior update when it is defined, the current value otherwise
OrKeep(opt, current) == IF IsDefined(opt) THEN Val(opt) ELSE current

\* applyUpdate that brings the heading into [0, 360) on every tick
applyUpdate_wrapped(aircraft, newBehaviorData, behaviorUpdate) ==
  [aircraft EXCEPT
     !.heading = JsMod(OrKeep(behaviorUpdate.newHeading, @) + 360, 360),
     !.altitude = OrKeep(behaviorUpdate.newAltitude, @),
     !.groundSpeed = OrKeep(behaviorUpdate.newGroundSpeed, @),
     !.behavior = [state |-> OrKeep(behaviorUpdate.newState, @.state),
                   data |-> newBehaviorData]]

\* updateAircraftPosition, lines 42-65: the snapshot with the behavior update applied
applyUpdate(aircraft, newBehaviorData, behaviorUpdate) ==
  [aircraft EXCEPT
     !.heading = OrKeep(behaviorUpdate.newHeading, @),
     !.altitude = OrKeep(behaviorUpdate.newAltitude, @),
     !.groundSpeed = OrKeep(behaviorUpdate.newGroundSpeed, @),
     !.behavior = [state |-> OrKeep(behaviorUpdate.newState, @.state),
                   data |-> newBehaviorData]]

\* withPosition without the slice to MAX_HISTORY_LENGTH
withPosition_unsliced(updatedAircraft, newPosition, currentTime) ==
  [updatedAircraft EXCEPT
     !.position = [lon |-> newPosition.lon, lat |-> newPosition.lat,
                   timestamp |-> currentTime],
     !.positionHistory = <<updatedAircraft.position>> \o @]

\* withPosition keeping the history oldest first
withPosition_appended(updatedAircraft, newPosition, currentTime) ==
  [updatedAircraft EXCEPT
     !.position = [lon |-> newPosition.lon, lat |-> newPosition.lat,
                   timestamp |-> currentTime],
     !.positionHistory = Take(@ \o <<updatedAircraft.position>>, MAX_HISTORY_LENGTH)]

\* updateAircraftPosition, lines 76-93: newPosition is what turf.destination returned
withPosition(updatedAircraft, newPosition, currentTime) ==
  [updatedAircraft EXCEPT
     !.position = [lon |-> newPosition.lon, lat |-> newPosition.lat,
                   timestamp |-> currentTime],
     !.positionHistory = Take(<<updatedAircraft.position>> \o @, MAX_HISTORY_LENGTH)]

\* updateAircraftPosition, lines 67-93
advance(updatedAircraft, elapsedSeconds, currentTime) ==
  withPosition(updatedAircraft,
               Destination(updatedAircraft.position,
                           \* (groundSpeed * elapsedSeconds) / 3600 nautical miles
                           RoundDiv(updatedAircraft.groundSpeed * elapsedSeconds * NmScale, 3600),
                           updatedAircraft.heading),
               currentTime)

\* moved with the displacement computed from the heading and speed the aircraft
\* had before the behavior update was applied
moved_beforeUpdate(aircraft, result, elapsedSeconds, currentTime) ==
  withPosition(applyUpdate(aircraft, result.state, result.update),
               Destination(aircraft.position,
                           RoundDiv(aircraft.groundSpeed * elapsedSeconds * NmScale, 3600),
                           aircraft.heading),
               currentTime)

\* updateAircraftPosition, lines 42-93: result is what updateBehavior returned
moved(aircraft, result, elapsedSeconds, currentTime) ==
  advance(applyUpdate(aircraft, result.state, result.update), elapsedSeconds, currentTime)

updateAircraftPosition(aircraft, elapsedSeconds, currentTime, strm) ==
  moved(aircraft,
        updateBehavior([aircraft.behavior.data EXCEPT
                          !.position = [lon |-> aircraft.position.lon,
                                        lat |-> aircraft.position.lat]],
                       aircraft.heading, aircraft.altitude, elapsedSeconds, currentTime, strm),
        elapsedSeconds, currentTime)

\* createTestAircraft, lines 106-132: initialPosition is 15 nm east of the reference point
testAircraftAt(initialPosition, currentTime) ==
  [position |-> [lon |-> initialPosition.lon, lat |-> initialPosition.lat,
                 timestamp |-> currentTime],
   positionHistory |-> <<>>,
   altitude |-> Ft(1500),
   heading |-> 360,
   groundSpeed |-> 95,
   type |-> "PA28",
   squawk |-> "4200",
   behavior |-> [state |-> "CRUISE",
                 data |-> [createInitialBehavior(currentTime) EXCEPT
                             !.position = [lon |-> initialPosition.lon,
                                           lat |-> initialPosition.lat]]]]

\* referencePoint: KBUF's coordinates, the origin of the plane
createTestAircraft(referencePoint, currentTime) ==
  testAircraftAt(Destination(referencePoint, 15 * NmScale, 90), currentTime)

(***************************************************************************)
(* AirTrafficRadar: the handlers of the radar component.                   *)
(***************************************************************************)
\* a || b for an optional number or string a: b when a is undefined or falsy
OrElse(opt, default) ==
  IF IsDefined(opt) /\ Val(opt) # 0 THEN Val(opt) ELSE default

\* behavior: {...behavior, state: newState || behavior.state, data}
withBehavior(currentAircraft, result) ==
  [currentAircraft EXCEPT
     !.behavior = [state |-> OrKeep(result.update.newState, @.state),
                   data |-> result.state]]

\* handleKeyPress 'r'
handleKeyR(currentAircraft, currentTime) ==
  withBehavior(currentAircraft,
               forceTurn(currentAircraft.behavior.data, currentAircraft.heading, currentTime))

\* handleKeyPress 'l', lines 372-382: result is what forceLanding returned
landingApplied(currentAircraft, result) ==
  [withBehavior(currentAircraft, result) EXCEPT
     !.heading = OrElse(result.update.newHeading, @),
     !.groundSpeed = OrElse(result.update.newGroundSpeed, @)]

\* handleKeyPress 'l'
handleKeyL(currentAircraft, currentTime, strm) ==
  landingApplied(currentAircraft,
                 forceLanding(currentAircraft.behavior.data, currentAircraft.altitude,
                              currentTime, strm))

\* handleKeyPress 'c' and 'd', the returned snapshot: result is what the command returned
speedApplied(currentAircraft, result) ==
  [withBehavior(currentAircraft, result) EXCEPT
     !.groundSpeed = OrElse(result.update.newGroundSpeed, @)]

\* handleKeyPress 'c'
handleKeyC(currentAircraft, currentTime) ==
  speedApplied(currentAircraft,
               forceClimb(currentAircraft.behavior.data, currentAircraft.altitude,
                          currentTime))

\* handleKeyPress 'd'
handleKeyD(currentAircraft, currentTime) ==
  speedApplied(currentAircraft,
               forceDescent(currentAircraft.behavior.data, currentAircraft.altitude,
                            currentTime))

\* target: the clicked point, already converted by screenToGeo
handleClick(currentAircraft, target, currentTime) ==
  withBehavior(currentAircraft,
               forceFlyTo(currentAircraft.behavior.data, target, currentTime))

(***************************************************************************)
(* The state machine.                                                      *)
(***************************************************************************)
VARIABLES
  aircraft,   \* the radar's aircraft snapshot (useState)
  now,        \* the last reading of Date.now()
  stream,     \* the numbers the seed's stream has revealed so far
  interval,   \* the elapsedSeconds the timer passes to every tick
  ticks,      \* ticks so far
  cmds,       \* forced commands so far
  last,       \* the last operation, its input and the snapshot it was given
  lastCmd,    \* the last forced command, the snapshot it was given, the ticks before it
  twin,       \* the aircraft of a second, independent run
  twinNow,    \* the last reading of Date.now() in the second run
  visited,    \* the states currentState has been in
  given,      \* the snapshot object the last operation was given, as it reads now
  mounted,       \* the operations page is mounted and its worker is running
  clock,         \* Date.now() of the operations page and of its worker, in ms
  localStorage,  \* activeFlightIds and flightActivations
  shownFlights,  \* the page's activeFlights state: what it shows of each flight
  toWorker,      \* messages the page has posted that the worker has not handled
  toMain,        \* messages the worker has posted that the page has not handled
  activeFlights, \* the worker's map of the flights it simulates
  simTicks,      \* firings of the worker's timer so far
  pageOps,       \* operations of the user on the page so far
  withdrawn,     \* flights whose last message handled by the worker was their deactivation
  lastPost       \* what the worker's last message listed, and the flights withdrawn then

simVars == <<mounted, clock, localStorage, shownFlights, toWorker, toMain, activeFlights,
             simTicks, pageOps, withdrawn, lastPost>>

vars == <<aircraft, now, stream, interval, ticks, cmds, last, lastCmd, twin, twinNow,
          visited, given, simVars>>

\* a Map or an object without entries
NoEntries == [k \in {} |-> k]
\* a reading of Date.now() when the operations page is first opened, in ms
Epoch == 1000

\* the operations page is not open: no worker, nothing stored
SimIdle ==
  /\ mounted = FALSE
  /\ clock = Epoch
  /\ localStorage = [activeIds |-> {}, activations |-> NoEntries]
  /\ shownFlights = NoEntries
  /\ toWorker = <<>>
  /\ toMain = <<>>
  /\ activeFlights = NoEntries
  /\ simTicks = 0
  /\ pageOps = 0
  /\ withdrawn = {}
  /\ lastPost = [type |-> "none", ids |-> {}, withdrawn |-> {}]

\* tick lengths an API caller passes
ElapsedSet == {3, 120}
\* wall-clock time between two handler calls, in ms
ClockSteps == {UPDATE_INTERVAL}
\* wall-clock time between two handler calls of the second run, in ms
TwinClockSteps == {0, UPDATE_INTERVAL}
\* points a click can name
ClickTargets == {[lon |-> 0, lat |-> 0], [lon |-> 90000, lat |-> 36000]}
\* tick lengths of the radar's timer
IntervalSet == {1, UPDATE_INTERVAL \div 1000}

KBUF == [lon |-> 0, lat |-> 0]

InitWith(intervals) ==
  /\ now = 0
  /\ aircraft = createTestAircraft(KBUF, 0)
  /\ stream = <<>>
  /\ interval \in intervals
  /\ ticks = 0
  /\ cmds = 0
  /\ last = [op |-> "create", elapsedSeconds |-> 0, before |-> aircraft]
  /\ lastCmd = [key |-> "none", before |-> aircraft, tick |-> 0]
  /\ twin = createTestAircraft(KBUF, 0)
  /\ twinNow = 0
  /\ visited = {aircraft.behavior.data.currentState}
  /\ given = aircraft
  /\ SimIdle

Init == InitWith({UPDATE_INTERVAL \div 1000})

\* the snapshot object input after the operation op that returned the snapshot
\* returned.  updateAircraftPosition copies the aircraft one level deep
\* ({...aircraft}), so the behavior object it writes state and data to is the
\* one of its input; the handlers of the forced commands build a new behavior
\* object, and the input sees only that its generator has been read.
inputAfter(op, input, returned) ==
  IF op = "tick"
  THEN [input EXCEPT !.behavior = returned.behavior]
  ELSE [input EXCEPT !.behavior.data.rng = returned.behavior.data.rng]

\* the stream as far as the generator has been read
Revealed(strm, rng) == SubSeq(strm, 1, Max(Len(stream), rng))

\* the tick's effect on the state: next is what updateAircraftPosition returned
CommitTick(next, strm, elapsedSeconds, dt) ==
  /\ next.behavior.data.rng <= MaxDraws
  /\ aircraft' = next
  /\ now' = now + dt
  /\ stream' = Revealed(strm, next.behavior.data.rng)
  /\ ticks' = ticks + 1
  /\ last' = [op |-> "tick", elapsedSeconds |-> elapsedSeconds, before |-> aircraft]
  /\ visited' = visited \cup {next.behavior.data.currentState}
  /\ given' = inputAfter("tick", aircraft, next)
  /\ UNCHANGED <<interval, cmds, lastCmd, twin, twinNow, simVars>>

\* one call of updateAircraftPosition, dt ms after the previous handler
DoTick(elapsedSeconds, dt) ==
  \E d1 \in DrawSet, d2 \in DrawSet :
    CommitTick(updateAircraftPosition(aircraft, elapsedSeconds, now + dt,
                                      stream \o <<d1, d2>>),
               stream \o <<d1, d2>>, elapsedSeconds, dt)

\* one forced command, dt ms after the previous handler
DoCommand(key, next, strm, dt) ==
  /\ next.behavior.data.rng <= MaxDraws
  /\ aircraft' = next
  /\ now' = now + dt
  /\ stream' = Revealed(strm, next.behavior.data.rng)
  /\ cmds' = cmds + 1
  /\ last' = [op |-> key, elapsedSeconds |-> 0, before |-> aircraft]
  /\ lastCmd' = [key |-> key, before |-> aircraft, tick |-> ticks]
  /\ visited' = visited \cup {next.behavior.data.currentState}
  /\ given' = inputAfter(key, aircraft, next)
  /\ UNCHANGED <<interval, ticks, twin, twinNow, simVars>>

DoKeyR(dt) == DoCommand("r", handleKeyR(aircraft, now + dt), stream, dt)
DoKeyL(dt) ==
  \E d1 \in DrawSet :
    DoCommand("l", handleKeyL(aircraft, now + dt, stream \o <<d1>>), stream \o <<d1>>, dt)
DoKeyC(dt) == DoCommand("c", handleKeyC(aircraft, now + dt), stream, dt)
DoKeyD(dt) == DoCommand("d", handleKeyD(aircraft, now + dt), stream, dt)
DoClick(target, dt) == DoCommand("click", handleClick(aircraft, target, now + dt), stream, dt)

(***************************************************************************)
(* Spec: any interleaving of ticks of any length and forced commands.      *)
(***************************************************************************)
Tick == ticks < MaxTicks /\ \E es \in ElapsedSet, dt \in ClockSteps : DoTick(es, dt)
KeyR == cmds < MaxCmds /\ \E dt \in ClockSteps : DoKeyR(dt)
KeyL == cmds < MaxCmds /\ \E dt \in ClockSteps : DoKeyL(dt)
KeyC == cmds < MaxCmds /\ \E dt \in ClockSteps : DoKeyC(dt)
KeyD == cmds < MaxCmds /\ \E dt \in ClockSteps : DoKeyD(dt)
Click == cmds < MaxCmds /\ \E target \in ClickTargets, dt \in ClockSteps : DoClick(target, dt)

Next == Tick \/ KeyR \/ KeyL \/ KeyC \/ KeyD \/ Click

Spec == Init /\ [][Next]_vars

(***************************************************************************)
(* SpecRadar: the radar component.  The timer calls updateAircraftPosition *)
(* with the same elapsedSeconds every interval; one forced command is      *)
(* given, right after one of the first ticks.                              *)
(***************************************************************************)
RadarCanCommand == cmds = 0 /\ ticks <= MaxLeadTicks

RadarTick == ticks < MaxRadarTicks /\ DoTick(interval, interval * 1000)
RadarKeyR == RadarCanCommand /\ DoKeyR(0)
RadarKeyL == RadarCanCommand /\ DoKeyL(0)
RadarKeyC == RadarCanCommand /\ DoKeyC(0)
RadarKeyD == RadarCanCommand /\ DoKeyD(0)
RadarClick == RadarCanCommand /\ \E target \in ClickTargets : DoClick(target, 0)

RadarNext == RadarTick \/ RadarKeyR \/ RadarKeyL \/ RadarKeyC \/ RadarKeyD \/ RadarClick

SpecRadar == InitWith(IntervalSet) /\ [][RadarNext]_vars

\* RadarTick can happen: the run has ticks left and, when the tick will read
\* the generator (in CRUISE, the dwell time over), numbers left
TimerCanFire ==
  /\ ticks < MaxRadarTicks
  /\ (aircraft.behavior.data.currentState = "CRUISE"
        /\ now + interval * 1000 - aircraft.behavior.data.stateStartTime >= DwellMs) =>
       aircraft.behavior.data.rng < MaxDraws

\* the steps that count a tick, which are the steps of RadarTick
TimerFires == TimerCanFire /\ ticks' = ticks + 1

\* the radar with its timer of UPDATE_INTERVAL, which keeps firing
SpecLive ==
  /\ InitWith({UPDATE_INTERVAL \div 1000})
  /\ [][RadarNext]_vars
  /\ WF_ticks(TimerFires)

(***************************************************************************)
(* SpecTwin: two independent runs created with the same seed and given the *)
(* same ticks and forced commands; each run reads its own wall clock.      *)
(***************************************************************************)
\* one operation given to both runs: next and twinNext are the snapshots returned
TwinStep(op, elapsedSeconds, next, twinNext, strm, dt, twinDt) ==
  /\ next.behavior.data.rng <= MaxDraws
  /\ twinNext.behavior.data.rng <= MaxDraws
  /\ aircraft' = next
  /\ twin' = twinNext
  /\ now' = now + dt
  /\ twinNow' = twinNow + twinDt
  /\ stream' = Revealed(strm, Max(next.behavior.data.rng, twinNext.behavior.data.rng))
  /\ ticks' = IF op = "tick" THEN ticks + 1 ELSE ticks
  /\ cmds' = IF op = "tick" THEN cmds ELSE cmds + 1
  /\ last' = [op |-> op, elapsedSeconds |-> elapsedSeconds, before |-> aircraft]
  /\ lastCmd' = IF op = "tick" THEN lastCmd
                ELSE [key |-> op, before |-> aircraft, tick |-> ticks]
  /\ visited' = visited \cup {next.behavior.data.currentState}
  /\ given' = inputAfter(op, aircraft, next)
  /\ UNCHANGED <<interval, simVars>>

TwinTick ==
  /\ ticks < MaxTicks
  /\ \E es \in ElapsedSet, dt \in ClockSteps, twinDt \in TwinClockSteps,
        d1 \in DrawSet, d2 \in DrawSet :
       TwinStep("tick", es,
                updateAircraftPosition(aircraft, es, now + dt, stream \o <<d1, d2>>),
                updateAircraftPosition(twin, es, twinNow + twinDt, stream \o <<d1, d2>>),
                stream \o <<d1, d2>>, dt, twinDt)
TwinKeyR ==
  /\ cmds < MaxCmds
  /\ \E dt \in ClockSteps, twinDt \in TwinClockSteps :
       TwinStep("r", 0, handleKeyR(aircraft, now + dt), handleKeyR(twin, twinNow + twinDt),
                stream, dt, twinDt)
TwinKeyL ==
  /\ cmds < MaxCmds
  /\ \E dt \in ClockSteps, twinDt \in TwinClockSteps, d1 \in DrawSet :
       TwinStep("l", 0, handleKeyL(aircraft, now + dt, stream \o <<d1>>),
                handleKeyL(twin, twinNow + twinDt, stream \o <<d1>>),
                stream \o <<d1>>, dt, twinDt)
TwinKeyC ==
  /\ cmds < MaxCmds
  /\ \E dt \in ClockSteps, twinDt \in TwinClockSteps :
       TwinStep("c", 0, handleKeyC(aircraft, now + dt), handleKeyC(twin, twinNow + twinDt),
                stream, dt, twinDt)
TwinKeyD ==
  /\ cmds < MaxCmds
  /\ \E dt \in ClockSteps, twinDt \in TwinClockSteps :
       TwinStep("d", 0, handleKeyD(aircraft, now + dt), handleKeyD(twin, twinNow + twinDt),
                stream, dt, twinDt)
TwinClick ==
  /\ cmds < MaxCmds
  /\ \E target \in ClickTargets, dt \in ClockSteps, twinDt \in TwinClockSteps :
       TwinStep("click", 0, handleClick(aircraft, target, now + dt),
                handleClick(twin, target, twinNow + twinDt), stream, dt, twinDt)

TwinNext == TwinTick \/ TwinKeyR \/ TwinKeyL \/ TwinKeyC \/ TwinKeyD \/ TwinClick

SpecTwin == Init /\ [][TwinNext]_vars

(***************************************************************************)
(* SpecPair: two aircraft, each made by its own createTestAircraft call     *)
(* with the default seed, advanced one at a time in any order on one clock. *)
(***************************************************************************)
\* seedrandom(seed) of createInitialBehavior: the call-th call returns a new
\* generator object
seedrandom_shared(call) == 1

seedrandom(call) == call

\* the generator object each aircraft's behavior state refers to
generatorOf == [aircraft |-> seedrandom(1), twin |-> seedrandom(2)]

\* the snapshot other after an operation on another aircraft returned next:
\* an aircraft that refers to the same generator object sees it advanced
bystander(other, mine, theirs, next) ==
  IF mine = theirs
  THEN [other EXCEPT !.behavior.data.rng = next.behavior.data.rng]
  ELSE other

PairNames == {"aircraft", "twin"}
PairOf(who) == IF who = "aircraft" THEN aircraft ELSE twin
PairOther(who) == IF who = "aircraft" THEN twin ELSE aircraft

\* one operation on the aircraft who: next is the snapshot it returned
PairStep(who, op, elapsedSeconds, next, strm, dt) ==
  /\ next.behavior.data.rng <= MaxDraws
  /\ aircraft' = IF who = "aircraft" THEN next
                 ELSE bystander(aircraft, generatorOf.aircraft, generatorOf.twin, next)
  /\ twin' = IF who = "twin" THEN next
             ELSE bystander(twin, generatorOf.twin, generatorOf.aircraft, next)
  /\ now' = now + dt
  /\ stream' = Revealed(strm, next.behavior.data.rng)
  /\ ticks' = IF op = "tick" THEN ticks + 1 ELSE ticks
  /\ cmds' = IF op = "tick" THEN cmds ELSE cmds + 1
  /\ last' = [op |-> op, elapsedSeconds |-> elapsedSeconds, before |-> PairOf(who),
              who |-> who, other |-> PairOther(who)]
  /\ given' = inputAfter(op, PairOf(who), next)
  /\ UNCHANGED <<interval, lastCmd, twinNow, visited, simVars>>

PairTick ==
  /\ ticks + cmds < MaxPairOps
  /\ \E who \in PairNames, es \in ElapsedSet, dt \in ClockSteps,
        d1 \in DrawSet, d2 \in DrawSet :
       PairStep(who, "tick", es,
                updateAircraftPosition(PairOf(who), es, now + dt, stream \o <<d1, d2>>),
                stream \o <<d1, d2>>, dt)
PairKeyR ==
  /\ ticks + cmds < MaxPairOps
  /\ \E who \in PairNames, dt \in ClockSteps :
       PairStep(who, "r", 0, handleKeyR(PairOf(who), now + dt), stream, dt)
PairKeyL ==
  /\ ticks + cmds < MaxPairOps
  /\ \E who \in PairNames, dt \in ClockSteps, d1 \in DrawSet :
       PairStep(who, "l", 0, handleKeyL(PairOf(who), now + dt, stream \o <<d1>>),
                stream \o <<d1>>, dt)
PairKeyC ==
  /\ ticks + cmds < MaxPairOps
  /\ \E who \in PairNames, dt \in ClockSteps :
       PairStep(who, "c", 0, handleKeyC(PairOf(who), now + dt), stream, dt)
PairKeyD ==
  /\ ticks + cmds < MaxPairOps
  /\ \E who \in PairNames, dt \in ClockSteps :
       PairStep(who, "d", 0, handleKeyD(PairOf(who), now + dt), stream, dt)
PairClick ==
  /\ ticks + cmds < MaxPairOps
  /\ \E who \in PairNames, target \in ClickTargets, dt \in ClockSteps :
       PairStep(who, "click", 0, handleClick(PairOf(who), target, now + dt), stream, dt)

PairNext == PairTick \/ PairKeyR \/ PairKeyL \/ PairKeyC \/ PairKeyD \/ PairClick

PairInit ==
  /\ InitWith({UPDATE_INTERVAL \div 1000})
  /\ last.op = "create"

SpecPair == PairInit /\ [][PairNext]_vars

(***************************************************************************)
(* SpecStep: ticks of any length applied to an aircraft in any maneuver    *)
(* state, with headings, target headings, altitudes and target altitudes   *)
(* sampled from their ranges.                                              *)
(***************************************************************************)
StepHeadings == {h \in -180..360 : h % HeadingGrain = 0}
StepAltitudes == {Ft(FIELD_ELEVATION + k * AltGrain) : k \in 0..8}
StepElapsed == {0, 1, 6, 60}
StepPlans == {None, Some(planApproach(Ft(1500), 5))}

\* the test aircraft in a maneuver state
maneuvering(state, heading, altitude, targetHeading, targetAltitude, plan) ==
  [createTestAircraft(KBUF, 0) EXCEPT
     !.heading = heading,
     !.altitude = altitude,
     !.behavior.state = state,
     !.behavior.data.currentState = state,
     !.behavior.data.targetHeading = targetHeading,
     !.behavior.data.targetAltitude = targetAltitude,
     !.behavior.data.approachPlan = plan]

\* the aircraft a flying at groundSpeed (95 kt in cruise, 90 kt after forceClimb,
\* forceDescent or the entry into FINAL_APPROACH)
atSpeed(a, groundSpeed) == [a EXCEPT !.groundSpeed = groundSpeed]

StepSpeeds == {APPROACH_SPEED, 95}

StepStarts ==
  {atSpeed(maneuvering("TURNING", h, Ft(1500), Some(t), None, p), s) :
     h \in StepHeadings, t \in StepHeadings, p \in StepPlans, s \in StepSpeeds}
  \cup {atSpeed(maneuvering("CLIMBING", 360, at[1], None, Some(at[2]), None), s) :
          at \in {x \in StepAltitudes \X StepAltitudes : x[1] <= x[2]}, s \in StepSpeeds}
  \cup {atSpeed(maneuvering("DESCENDING", 360, a, None, Some(t), None), 90) :
          a \in StepAltitudes, t \in StepAltitudes}
  \cup {atSpeed(maneuvering("FINAL_APPROACH", 360, a, Some(360), Some(Ft(1500)),
                            Some(planApproach(Ft(1500), d))), APPROACH_SPEED) :
          a \in StepAltitudes, d \in DrawSet}

StepInit ==
  /\ now = 0
  /\ aircraft \in StepStarts
  /\ stream = <<>>
  /\ interval = UPDATE_INTERVAL \div 1000
  /\ ticks = 0
  /\ cmds = 0
  /\ last = [op |-> "create", elapsedSeconds |-> 0, before |-> aircraft]
  /\ lastCmd = [key |-> "none", before |-> aircraft, tick |-> 0]
  /\ twin = createTestAircraft(KBUF, 0)
  /\ twinNow = 0
  /\ visited = {aircraft.behavior.data.currentState}
  /\ given = aircraft
  /\ SimIdle

StepTick == ticks < MaxStepTicks /\ \E es \in StepElapsed : DoTick(es, UPDATE_INTERVAL)

SpecStep == StepInit /\ [][StepTick]_vars

(***************************************************************************)
(* SpecTrack: the test aircraft cruising on any heading, given ticks of one *)
(* length; twin keeps the aircraft as it started.                           *)
(***************************************************************************)
TrackElapsed == {3, 120, 600}

\* the test aircraft on another heading
cruising(heading, groundSpeed) ==
  [createTestAircraft(KBUF, 0) EXCEPT !.heading = heading, !.groundSpeed = groundSpeed]

TrackInit ==
  /\ now = 0
  /\ aircraft \in {cruising(h, s) : h \in StepHeadings, s \in StepSpeeds}
  /\ stream = <<>>
  /\ interval \in TrackElapsed
  /\ ticks = 0
  /\ cmds = 0
  /\ last = [op |-> "create", elapsedSeconds |-> 0, before |-> aircraft]
  /\ lastCmd = [key |-> "none", before |-> aircraft, tick |-> 0]
  /\ twin = aircraft
  /\ twinNow = 0
  /\ visited = {aircraft.behavior.data.currentState}
  /\ given = aircraft
  /\ SimIdle

TrackTick == ticks < MaxTrackTicks /\ DoTick(interval, UPDATE_INTERVAL)

SpecTrack == TrackInit /\ [][TrackTick]_vars

(***************************************************************************)
(* The claims.                                                             *)
(***************************************************************************)
\* the angle between two headings, in [0, 180]
AngDist(a, b) == Min((a - b) % 360, (b - a) % 360)

\* the last operation was a tick given an aircraft in state st
TickedIn(st) == last.op = "tick" /\ last.before.behavior.data.currentState = st

\* C1: a tick in TURNING moves the heading by at most 3 degrees per elapsed
\* second, along the shorter arc toward targetHeading and never past it, and
\* puts it exactly on targetHeading when the remaining difference is at most
\* 3 * elapsedSeconds.
C1_TurnsTowardTargetWithoutOvershoot ==
  (TickedIn("TURNING") /\ IsDefined(last.before.behavior.data.targetHeading)) =>
    LET from == last.before.heading
        target == Val(last.before.behavior.data.targetHeading)
        turnAmount == STANDARD_TURN_RATE * last.elapsedSeconds
    IN  /\ AngDist(from, aircraft.heading) <= turnAmount
        /\ AngDist(from, aircraft.heading) + AngDist(aircraft.heading, target)
             = AngDist(from, target)
        /\ AngDist(from, target) <= turnAmount => aircraft.heading = target
        /\ AngDist(from, target) > turnAmount =>
             AngDist(aircraft.heading, target) = AngDist(from, target) - turnAmount

\* C1 witness: a TURNING tick that turned the aircraft part of the way
C1_Witness ==
  /\ TickedIn("TURNING")
  /\ IsDefined(last.before.behavior.data.targetHeading)
  /\ AngDist(last.before.heading, aircraft.heading) > 0
  /\ aircraft.heading # Val(last.before.behavior.data.targetHeading)

\* seconds of ticks since the last forced command, under the radar's timer
SecondsSinceCommand == (ticks - lastCmd.tick) * interval

\* the snapshot has the values createTestAircraft gives (CRUISE, 360, 1500 ft, 95 kt)
LikeTestAircraft(a) ==
  /\ a.behavior.data.currentState = "CRUISE"
  /\ a.heading = 360
  /\ a.altitude = Ft(1500)
  /\ a.groundSpeed = 95
  /\ ~IsDefined(a.behavior.data.approachPlan)

\* C2: forceTurn on the initial aircraft enters TURNING with targetHeading 180;
\* with no other command the aircraft is still turning before 60 seconds of
\* ticks, and after ticks totalling 60 seconds its heading is 180 and it is
\* in CRUISE again.
C2_ForceTurnTakesSixtySeconds ==
  (lastCmd.key = "r" /\ LikeTestAircraft(lastCmd.before)) =>
    /\ SecondsSinceCommand = 0 =>
         /\ aircraft.behavior.data.currentState = "TURNING"
         /\ aircraft.behavior.data.targetHeading = Some(180)
    /\ SecondsSinceCommand < 60 =>
         /\ aircraft.behavior.data.currentState = "TURNING"
         /\ aircraft.heading # 180
    /\ SecondsSinceCommand = 60 =>
         /\ aircraft.heading = 180
         /\ aircraft.behavior.data.currentState = "CRUISE"
         /\ aircraft.behavior.state = "CRUISE"

\* C2 witness: sixty one-second ticks after forceTurn on the initial aircraft
C2_Witness ==
  /\ lastCmd.key = "r"
  /\ LikeTestAircraft(lastCmd.before)
  /\ interval = 1
  /\ ticks - lastCmd.tick = 60
  /\ aircraft.heading = 180
  /\ aircraft.behavior.data.currentState = "CRUISE"

\* C3: a CLIMBING tick never yields an altitude above targetAltitude, and a
\* DESCENDING tick never one below targetAltitude.
C3_VerticalStepsStopAtTarget ==
  /\ (TickedIn("CLIMBING") /\ IsDefined(last.before.behavior.data.targetAltitude)) =>
       aircraft.altitude <= Val(last.before.behavior.data.targetAltitude)
  /\ (TickedIn("DESCENDING") /\ IsDefined(last.before.behavior.data.targetAltitude)) =>
       aircraft.altitude >= Val(last.before.behavior.data.targetAltitude)

\* C3 witness: a CLIMBING tick long enough to pass the target was stopped at it
C3_Witness ==
  /\ TickedIn("CLIMBING")
  /\ IsDefined(last.before.behavior.data.targetAltitude)
  /\ last.before.altitude + (Ft(500) * last.elapsedSeconds) \div 60
       > Val(last.before.behavior.data.targetAltitude)
  /\ aircraft.altitude = Val(last.before.behavior.data.targetAltitude)

\* C4: a FINAL_APPROACH tick descends at 500 ft/min (25/3 ft per elapsed
\* second) and never below the plan's runway elevation of 728 ft.
C4_FinalApproachFlooredAtRunway ==
  (TickedIn("FINAL_APPROACH") /\ IsDefined(last.before.behavior.data.approachPlan)) =>
    /\ Val(last.before.behavior.data.approachPlan).runway.elevation = Ft(728)
    /\ aircraft.altitude >= Ft(728)
    /\ aircraft.altitude > Ft(728) =>
         (last.before.altitude - aircraft.altitude) * 60
           = Ft(500) * last.elapsedSeconds
    /\ (last.before.altitude - aircraft.altitude) * 60 <= Ft(500) * last.elapsedSeconds

\* C4 witness: a FINAL_APPROACH tick long enough to pass the runway elevation
C4_Witness ==
  /\ TickedIn("FINAL_APPROACH")
  /\ IsDefined(last.before.behavior.data.approachPlan)
  /\ last.before.altitude > Ft(728)
  /\ (last.before.altitude - Ft(728)) * 60 < Ft(500) * last.elapsedSeconds
  /\ aircraft.altitude = Ft(728)

\* C5: forceClimb at altitude A sets targetAltitude = A + 1000 and enters
\* CLIMBING; with no other command the altitude rises by 500 ft per minute of
\* ticks, and after ticks totalling 120 seconds it is exactly A + 1000, the
\* state is CRUISE and groundSpeed is 95 kt.
C5_ForceClimbTakesTwoMinutes ==
  lastCmd.key = "c" =>
    /\ SecondsSinceCommand = 0 =>
         /\ aircraft.behavior.data.currentState = "CLIMBING"
         /\ aircraft.behavior.data.targetAltitude = Some(lastCmd.before.altitude + Ft(1000))
    /\ SecondsSinceCommand <= 120 =>
         (aircraft.altitude - lastCmd.before.altitude) * 60
           = Ft(500) * SecondsSinceCommand
    /\ SecondsSinceCommand = 120 =>
         /\ aircraft.altitude = lastCmd.before.altitude + Ft(1000)
         /\ aircraft.behavior.data.currentState = "CRUISE"
         /\ aircraft.behavior.state = "CRUISE"
         /\ aircraft.groundSpeed = 95

\* C5 witness: 120 seconds of ticks after forceClimb at 1500 ft
C5_Witness ==
  /\ lastCmd.key = "c"
  /\ lastCmd.before.altitude = Ft(1500)
  /\ SecondsSinceCommand = 120
  /\ aircraft.altitude = Ft(2500)
  /\ aircraft.behavior.data.currentState = "CRUISE"
  /\ aircraft.groundSpeed = 95

\* C6: positionHistory never holds more than 10 positions; starting from an
\* empty history it holds min(number of ticks, 10).
C6_HistoryLengthBounded ==
  /\ Len(aircraft.positionHistory) <= 10
  /\ Len(aircraft.positionHistory) = Min(ticks, 10)

\* C6 witness: more ticks than the history holds
C6_Witness == ticks > 10 /\ Len(aircraft.positionHistory) = 10

\* C7: after a tick positionHistory[0] is the position the aircraft had before
\* the tick, every older entry has moved one place back, and when the history
\* was full its oldest entry is the one dropped.
C7_HistoryNewestFirst ==
  last.op = "tick" =>
    /\ Len(aircraft.positionHistory) = Min(Len(last.before.positionHistory) + 1, 10)
    /\ aircraft.positionHistory[1] = last.before.position
    /\ \A i \in 1..(Len(aircraft.positionHistory) - 1) :
         aircraft.positionHistory[i + 1] = last.before.positionHistory[i]

\* C7 witness: a tick on a full history dropped the oldest of ten distinct entries
C7_Witness ==
  /\ last.op = "tick"
  /\ Len(last.before.positionHistory) = 10
  /\ Cardinality({last.before.positionHistory[i] : i \in 1..10}) = 10
  /\ aircraft.positionHistory[10] = last.before.positionHistory[9]
  /\ \A i \in 1..10 : aircraft.positionHistory[i] # last.before.positionHistory[10]

\* what an observer of a run sees of the aircraft
Observed(a) ==
  [state |-> a.behavior.state,
   currentState |-> a.behavior.data.currentState,
   heading |-> a.heading,
   altitude |-> a.altitude,
   groundSpeed |-> a.groundSpeed,
   lon |-> a.position.lon,
   lat |-> a.position.lat]

\* C8: two runs with the same seed, given the same ticks and forced commands,
\* show the same states, headings, altitudes, speeds and positions, whatever
\* each run's wall clock reads.
C8_SameSeedSameRun == Observed(aircraft) = Observed(twin)

\* C9: targetHeading is defined exactly in TURNING and APPROACH_TRANSIT, and
\* targetAltitude exactly in CLIMBING, DESCENDING and FINAL_APPROACH.
C9_TargetsDefinedIffNeeded ==
  /\ IsDefined(aircraft.behavior.data.targetHeading)
       <=> aircraft.behavior.data.currentState \in {"TURNING", "APPROACH_TRANSIT"}
  /\ IsDefined(aircraft.behavior.data.targetAltitude)
       <=> aircraft.behavior.data.currentState \in {"CLIMBING", "DESCENDING", "FINAL_APPROACH"}

\* C10: approachPlan is defined only in APPROACH_TRANSIT, TURNING and
\* FINAL_APPROACH, never in CRUISE, CLIMBING or DESCENDING.
C10_PlanOnlyWhileApproaching ==
  IsDefined(aircraft.behavior.data.approachPlan) =>
    aircraft.behavior.data.currentState \in {"APPROACH_TRANSIT", "TURNING", "FINAL_APPROACH"}

\* C11: the FINAL_APPROACH tick that reaches runway elevation leaves the
\* aircraft CLIMBING at runway elevation with approachPlan cleared,
\* targetAltitude 1728 ft and groundSpeed 95 kt; an aircraft at field elevation
\* in FINAL_APPROACH is never still in FINAL_APPROACH after the next tick.
C11_TouchdownBecomesCircuitClimb ==
  (TickedIn("FINAL_APPROACH") /\ IsDefined(last.before.behavior.data.approachPlan)) =>
    /\ (last.before.altitude - Ft(728)) * 60 <= Ft(500) * last.elapsedSeconds =>
         /\ aircraft.behavior.data.currentState = "CLIMBING"
         /\ aircraft.behavior.state = "CLIMBING"
         /\ aircraft.behavior.data.approachPlan = None
         /\ aircraft.behavior.data.targetAltitude = Some(Ft(1728))
         /\ aircraft.altitude = Ft(728)
         /\ aircraft.groundSpeed = 95
    /\ last.before.altitude = Ft(728) =>
         aircraft.behavior.data.currentState # "FINAL_APPROACH"
    /\ (last.before.altitude - Ft(728)) * 60 > Ft(500) * last.elapsedSeconds =>
         /\ aircraft.behavior.data.currentState = "FINAL_APPROACH"
         /\ aircraft.altitude > Ft(728)

\* C11 witness: an aircraft on final at 90 kt above the field touched down
C11_Witness ==
  /\ TickedIn("FINAL_APPROACH")
  /\ last.before.groundSpeed = 90
  /\ last.before.altitude > Ft(728)
  /\ aircraft.altitude = Ft(728)
  /\ aircraft.behavior.data.currentState = "CLIMBING"
  /\ aircraft.groundSpeed = 95

\* the tick or command just handled changed currentState
EnteredState == aircraft.behavior.data.currentState # last.before.behavior.data.currentState

\* C12: a tick draws from the generator only when the aircraft is in CRUISE and
\* at least 5000 ms have passed since stateStartTime; every state entry, by a
\* tick or by a forced command, sets stateStartTime to the current time; so a
\* tick never takes CRUISE to TURNING within 5 seconds of entering CRUISE, and
\* never draws for an aircraft in any other state.
C12_RandomDrawOnlyAfterDwellInCruise ==
  /\ last.op = "tick" =>
       /\ aircraft.behavior.data.rng # last.before.behavior.data.rng =>
            /\ last.before.behavior.data.currentState = "CRUISE"
            /\ now - last.before.behavior.data.stateStartTime >= 5000
       /\ (last.before.behavior.data.currentState = "CRUISE"
            /\ aircraft.behavior.data.currentState = "TURNING") =>
            now - last.before.behavior.data.stateStartTime >= 5000
       /\ (last.before.behavior.data.currentState = "CRUISE"
            /\ now - last.before.behavior.data.stateStartTime < 5000) =>
            aircraft.behavior.data.currentState = "CRUISE"
  /\ (last.op # "create" /\ EnteredState) => aircraft.behavior.data.stateStartTime = now

\* C12 witness: a tick at least 5 seconds into CRUISE drew and entered TURNING
C12_Witness ==
  /\ TickedIn("CRUISE")
  /\ now - last.before.behavior.data.stateStartTime >= 5000
  /\ aircraft.behavior.data.rng = last.before.behavior.data.rng + 2
  /\ aircraft.behavior.data.currentState = "TURNING"
  /\ aircraft.behavior.data.stateStartTime = now

\* C13: forceLanding and ticks bring the aircraft to APPROACH_TRANSIT, so a
\* landing started by forceLanding has been in APPROACH_TRANSIT by the time it
\* is on final approach; without a forceLanding the aircraft is never in
\* APPROACH_TRANSIT.
C13_TransitReachedByLandingOnly ==
  /\ (lastCmd.key = "l" /\ aircraft.behavior.data.currentState = "FINAL_APPROACH") =>
       "APPROACH_TRANSIT" \in visited
  /\ "APPROACH_TRANSIT" \in visited => lastCmd.key = "l"

\* the tick just handled took the aircraft into state st
TickEntered(st) ==
  /\ last.op = "tick"
  /\ last.before.behavior.data.currentState # st
  /\ aircraft.behavior.data.currentState = st

\* C14: in a landing started by forceLanding, on every entry into
\* FINAL_APPROACH the aircraft points along approachPlan.runway.heading.
C14_FinalEnteredOnRunwayHeading ==
  (lastCmd.key = "l" /\ TickEntered("FINAL_APPROACH")) =>
    /\ IsDefined(aircraft.behavior.data.approachPlan)
    /\ (aircraft.heading - Val(aircraft.behavior.data.approachPlan).runway.heading) % 360 = 0

\* what C15 says of forceLanding and the ticks after it, with the bearing to the
\* approach fix taken from the point from
LandingAsPlanned(from) ==
  /\ last.op = "l" =>
       /\ IsDefined(aircraft.behavior.data.approachPlan)
       /\ Val(aircraft.behavior.data.approachPlan).approachFix.altitude = last.before.altitude
       /\ aircraft.behavior.data.targetAltitude = Some(last.before.altitude)
       /\ aircraft.behavior.data.currentState = "TURNING"
       /\ aircraft.behavior.data.targetHeading
            = Some(Bearing(from, Val(aircraft.behavior.data.approachPlan).approachFix))
       /\ aircraft.groundSpeed = last.before.groundSpeed
       /\ aircraft.heading = last.before.heading
       /\ aircraft.altitude = last.before.altitude
  /\ (lastCmd.key = "l" /\ TickedIn("TURNING")) =>
       aircraft.groundSpeed = IF TickEntered("FINAL_APPROACH") THEN 90
                              ELSE last.before.groundSpeed

\* C15: forceLanding plans the approach at the current altitude, enters TURNING
\* with targetHeading = the bearing from the aircraft's current position to the
\* approach fix and leaves groundSpeed unchanged; the ticks after it leave
\* groundSpeed unchanged until the tick that enters FINAL_APPROACH sets 90 kt.
C15_ForceLandingTurnsTowardFix == LandingAsPlanned(last.before.position)

\* C16: from any state forceTurn sets currentState = TURNING with
\* targetHeading = (heading + 180) mod 360, a value in [0, 360), and resets
\* stateStartTime; the command changes none of heading, altitude, groundSpeed.
C16_ForceTurnOverridesAnyState ==
  last.op = "r" =>
    /\ aircraft.behavior.data.currentState = "TURNING"
    /\ aircraft.behavior.state = "TURNING"
    /\ aircraft.behavior.data.targetHeading = Some((last.before.heading + 180) % 360)
    /\ Val(aircraft.behavior.data.targetHeading) \in 0..359
    /\ aircraft.behavior.data.stateStartTime = now
    /\ aircraft.heading = last.before.heading
    /\ aircraft.altitude = last.before.altitude
    /\ aircraft.groundSpeed = last.before.groundSpeed

\* C16 witness: forceTurn given on final approach, on a heading below zero
C16_Witness ==
  /\ last.op = "r"
  /\ last.before.behavior.data.currentState = "FINAL_APPROACH"
  /\ last.before.heading < 0
  /\ aircraft.behavior.data.currentState = "TURNING"

\* C17: from any state forceClimb sets targetAltitude = altitude + 1000 ft and
\* enters CLIMBING at 90 kt; forceDescent sets targetAltitude =
\* max(altitude - 1000, 1228) ft and enters DESCENDING at 90 kt.
C17_ForceClimbAndDescentTargets ==
  /\ last.op = "c" =>
       /\ aircraft.behavior.data.targetAltitude = Some(last.before.altitude + Ft(1000))
       /\ aircraft.behavior.data.currentState = "CLIMBING"
       /\ aircraft.behavior.state = "CLIMBING"
       /\ aircraft.groundSpeed = 90
       /\ aircraft.altitude = last.before.altitude
  /\ last.op = "d" =>
       /\ aircraft.behavior.data.targetAltitude
            = Some(IF last.before.altitude - Ft(1000) >= Ft(1228)
                   THEN last.before.altitude - Ft(1000) ELSE Ft(1228))
       /\ aircraft.behavior.data.currentState = "DESCENDING"
       /\ aircraft.behavior.state = "DESCENDING"
       /\ aircraft.groundSpeed = 90
       /\ aircraft.altitude = last.before.altitude

\* C17 witness: forceDescent given during a turn at 95 kt, less than 1000 ft
\* above the floor of 1228 ft
C17_Witness ==
  /\ last.op = "d"
  /\ last.before.behavior.data.currentState = "TURNING"
  /\ last.before.groundSpeed = 95
  /\ last.before.altitude - Ft(1000) < Ft(1228)
  /\ aircraft.behavior.data.targetAltitude = Some(Ft(1228))
  /\ aircraft.groundSpeed = 90

\* C18: forceFlyTo enters TURNING with targetHeading = the bearing from the
\* behavior state's position to the target point and changes none of altitude,
\* targetAltitude, groundSpeed; the ticks that follow turn the aircraft onto
\* that bearing, and the tick that reaches it returns the aircraft to CRUISE
\* when no approach plan is active.
C18_ForceFlyToTurnsTowardPoint ==
  /\ last.op = "click" =>
       /\ \E target \in ClickTargets :
            aircraft.behavior.data.targetHeading
              = Some(Bearing(last.before.behavior.data.position, target))
       /\ aircraft.behavior.data.currentState = "TURNING"
       /\ aircraft.behavior.state = "TURNING"
       /\ aircraft.altitude = last.before.altitude
       /\ aircraft.behavior.data.targetAltitude = last.before.behavior.data.targetAltitude
       /\ aircraft.groundSpeed = last.before.groundSpeed
       /\ aircraft.heading = last.before.heading
  /\ (lastCmd.key = "click" /\ TickedIn("TURNING")) =>
       LET bearing == Val(last.before.behavior.data.targetHeading)
           turnAmount == STANDARD_TURN_RATE * last.elapsedSeconds
       IN  IF AngDist(last.before.heading, bearing) <= turnAmount
           THEN /\ aircraft.heading = bearing
                /\ ~IsDefined(last.before.behavior.data.approachPlan) =>
                     /\ aircraft.behavior.data.currentState = "CRUISE"
                     /\ aircraft.behavior.state = "CRUISE"
           ELSE /\ aircraft.behavior.data.currentState = "TURNING"
                /\ aircraft.behavior.data.targetHeading = Some(bearing)
                /\ AngDist(aircraft.heading, bearing)
                     = AngDist(last.before.heading, bearing) - turnAmount

\* C18 witness: after forceFlyTo the ticks turned the aircraft onto the bearing
\* to the clicked point and it is back in CRUISE
C18_Witness ==
  /\ lastCmd.key = "click"
  /\ TickedIn("TURNING")
  /\ ticks - lastCmd.tick > 1
  /\ \E target \in ClickTargets :
       aircraft.heading = Bearing(lastCmd.before.behavior.data.position, target)
  /\ aircraft.heading # lastCmd.before.heading
  /\ aircraft.behavior.data.currentState = "CRUISE"

\* C19: the TURNING tick whose turn reaches targetHeading enters FINAL_APPROACH
\* at 90 kt when an approachPlan is active, and otherwise enters CRUISE with
\* targetHeading cleared; every other TURNING tick leaves the state TURNING.
C19_TurnCompletion ==
  (TickedIn("TURNING") /\ IsDefined(last.before.behavior.data.targetHeading)) =>
    IF AngDist(last.before.heading, Val(last.before.behavior.data.targetHeading))
         <= STANDARD_TURN_RATE * last.elapsedSeconds
    THEN IF IsDefined(last.before.behavior.data.approachPlan)
         THEN /\ aircraft.behavior.data.currentState = "FINAL_APPROACH"
              /\ aircraft.behavior.state = "FINAL_APPROACH"
              /\ aircraft.groundSpeed = 90
         ELSE /\ aircraft.behavior.data.currentState = "CRUISE"
              /\ aircraft.behavior.state = "CRUISE"
              /\ aircraft.behavior.data.targetHeading = None
    ELSE /\ aircraft.behavior.data.currentState = "TURNING"
         /\ aircraft.behavior.state = "TURNING"

\* C19 witness: a turn at 95 kt with an approachPlan reached its target
C19_Witness ==
  /\ TickedIn("TURNING")
  /\ IsDefined(last.before.behavior.data.approachPlan)
  /\ last.before.groundSpeed = 95
  /\ last.before.heading # Val(last.before.behavior.data.targetHeading)
  /\ aircraft.heading = Val(last.before.behavior.data.targetHeading)
  /\ aircraft.behavior.data.currentState = "FINAL_APPROACH"
  /\ aircraft.groundSpeed = 90

\* C20: the CLIMBING or DESCENDING tick that reaches targetAltitude enters
\* CRUISE at 95 kt with targetAltitude cleared; every earlier tick leaves the
\* state unchanged and moves the altitude toward the target by 500 ft per
\* elapsed minute.
C20_VerticalCompletion ==
  /\ (TickedIn("CLIMBING") /\ IsDefined(last.before.behavior.data.targetAltitude)) =>
       IF (Val(last.before.behavior.data.targetAltitude) - last.before.altitude) * 60
            <= Ft(500) * last.elapsedSeconds
       THEN /\ aircraft.behavior.data.currentState = "CRUISE"
            /\ aircraft.behavior.state = "CRUISE"
            /\ aircraft.groundSpeed = 95
            /\ aircraft.behavior.data.targetAltitude = None
       ELSE /\ aircraft.behavior.data.currentState = "CLIMBING"
            /\ aircraft.behavior.state = "CLIMBING"
            /\ (aircraft.altitude - last.before.altitude) * 60 = Ft(500) * last.elapsedSeconds
  /\ (TickedIn("DESCENDING") /\ IsDefined(last.before.behavior.data.targetAltitude)) =>
       IF (last.before.altitude - Val(last.before.behavior.data.targetAltitude)) * 60
            <= Ft(500) * last.elapsedSeconds
       THEN /\ aircraft.behavior.data.currentState = "CRUISE"
            /\ aircraft.behavior.state = "CRUISE"
            /\ aircraft.groundSpeed = 95
            /\ aircraft.behavior.data.targetAltitude = None
       ELSE /\ aircraft.behavior.data.currentState = "DESCENDING"
            /\ aircraft.behavior.state = "DESCENDING"
            /\ (last.before.altitude - aircraft.altitude) * 60 = Ft(500) * last.elapsedSeconds

\* C20 witness: a descent at 90 kt reached its target from above
C20_Witness ==
  /\ TickedIn("DESCENDING")
  /\ last.before.groundSpeed = 90
  /\ last.before.altitude > Val(last.before.behavior.data.targetAltitude)
  /\ aircraft.altitude = Val(last.before.behavior.data.targetAltitude)
  /\ aircraft.behavior.data.currentState = "CRUISE"
  /\ aircraft.groundSpeed = 95

\* C21: a tick applies the heading and speed returned by its behavior step
\* before it computes the displacement: the new position lies
\* (post-update groundSpeed * elapsedSeconds) / 3600 nm from the old one on the
\* post-update heading.
C21_DisplacementUsesUpdatedHeadingAndSpeed ==
  last.op = "tick" =>
    LET to == Destination(last.before.position,
                          aircraft.groundSpeed * last.elapsedSeconds,
                          aircraft.heading)
    IN  /\ aircraft.position.lon = to.lon
        /\ aircraft.position.lat = to.lat

\* C21 witness: a tick that changed both heading and speed moved the aircraft
\* to a point other than the one the old heading and speed lead to
C21_Witness ==
  /\ last.op = "tick"
  /\ aircraft.heading # last.before.heading
  /\ aircraft.groundSpeed # last.before.groundSpeed
  /\ last.elapsedSeconds > 0
  /\ LET stale == Destination(last.before.position,
                              last.before.groundSpeed * last.elapsedSeconds,
                              last.before.heading)
     IN  aircraft.position.lon # stale.lon \/ aircraft.position.lat # stale.lat

\* C22: in every state reachable from the aircraft of createTestAircraft by
\* ticks and forced commands the heading lies in [0, 360).
C22_HeadingInRange == aircraft.heading >= 0 /\ aircraft.heading < 360

\* what the operation recorded in last returns for the snapshot before when
\* that aircraft is the only one there is
Alone(op, before, elapsedSeconds) ==
  CASE op = "tick" -> {updateAircraftPosition(before, elapsedSeconds, now, stream \o <<5, 5>>)}
    [] op = "r" -> {handleKeyR(before, now)}
    [] op = "l" -> {handleKeyL(before, now, stream \o <<5>>)}
    [] op = "c" -> {handleKeyC(before, now)}
    [] op = "d" -> {handleKeyD(before, now)}
    [] op = "click" -> {handleClick(before, target, now) : target \in ClickTargets}
    [] OTHER -> {before}

\* C23: of two aircraft that were each created with their own behavior state,
\* an operation on one leaves every field of the other as it was, the position
\* of its random stream included, and gives the operated aircraft the snapshot
\* it would have got had it been advanced alone.
C23_AircraftShareNoState ==
  last.op # "create" =>
    /\ PairOther(last.who) = last.other
    /\ PairOf(last.who) \in Alone(last.op, last.before, last.elapsedSeconds)

\* a tick of one aircraft drew from its generator while the other aircraft,
\* which has drawn nothing yet, was left where it was
C23_Witness ==
  /\ last.op = "tick"
  /\ PairOf(last.who).behavior.data.rng > last.before.behavior.data.rng
  /\ PairOther(last.who).behavior.data.rng = 0
  /\ PairOther(last.who) = last.other

\* the point at range ((A - E) / 1000) * 3 nm from the threshold of the runway
\* descriptor runway on bearing (H + 180) mod 360
FixFor(runway, A) ==
  Destination(runway.threshold,
              RoundDiv((A - runway.elevation) * 3 * NmScale, 1000 * AltScale),
              (runway.heading + 180) % 360)

\* C24: the approach fix of a plan lies at range ((A - E) / 1000) * 3 nm from
\* the threshold of the plan's runway (heading H, field elevation E) on bearing
\* (H + 180) mod 360, on the far side of the threshold from the runway, and
\* its altitude is the altitude A the landing was requested at; the runway is
\* the first runway of the airport the plan selected.
C24_ApproachFixGeometry ==
  IsDefined(aircraft.behavior.data.approachPlan) =>
    LET plan == Val(aircraft.behavior.data.approachPlan)
        fix == plan.approachFix
        to == FixFor(plan.runway, fix.altitude)
        runway == airportData[plan.airport].runways[1]
    IN  /\ fix.lon = to.lon
        /\ fix.lat = to.lat
        /\ (fix.altitude > plan.runway.elevation =>
              AngDist(Bearing(plan.runway.threshold, fix), plan.runway.heading + 180) <= 1)
        /\ plan.runway.heading = runway.heading
        /\ plan.runway.threshold = [lat |-> runway.start.lat, lon |-> runway.start.lon]
        /\ (last.op = "l" => fix.altitude = last.before.altitude)

\* a landing requested after a climb, planned to the second airport
C24_Witness ==
  /\ last.op = "l"
  /\ last.before.altitude > Ft(1500)
  /\ IsDefined(aircraft.behavior.data.approachPlan)
  /\ Val(aircraft.behavior.data.approachPlan).airport = "KIAG"
  /\ Val(aircraft.behavior.data.approachPlan).approachFix.altitude = last.before.altitude

\* the aircraft has cruised since it started, on the heading and at the speed
\* it started with
Steady ==
  /\ visited = {"CRUISE"}
  /\ aircraft.heading = twin.heading
  /\ aircraft.groundSpeed = twin.groundSpeed

\* one destination-point projection for all the ticks so far
Projected == Destination(twin.position, twin.groundSpeed * (ticks * interval), twin.heading)

\* what the rounding of ticks + 1 projections can add up to, in 1/3600 nm
Tolerance == 2 * (ticks + 1)

\* C25: with constant heading and groundSpeed and no maneuver change, N ticks
\* of elapsedSeconds each leave the aircraft where one destination-point
\* projection of speed * (N * elapsedSeconds) / 3600 nm from the starting
\* position on that heading ends, within the rounding tolerance.
C25_TicksAddUp ==
  (ticks >= 1 /\ Steady) =>
    /\ Abs(aircraft.position.lon - Projected.lon) <= Tolerance
    /\ Abs(aircraft.position.lat - Projected.lat) <= Tolerance

RECURSIVE RowSum(_, _)
\* the probabilities of the first n entries of a row, added up
RowSum(transitions, n) ==
  IF n = 0 THEN 0 ELSE RowSum(transitions, n - 1) + transitions[n].probability

\* C26: for every state of the AircraftState enumeration the probabilities of
\* its row in the transition table sum to 1.0 (100 percent), so that every
\* number drawn from [0, 1) falls on an entry of the row.
C26_RowsSumToOne ==
  /\ DOMAIN stateTransitions = AircraftState
  /\ \A st \in AircraftState :
       /\ RowSum(stateTransitions[st], Len(stateTransitions[st])) = 100
       /\ \A e \in 1..Len(stateTransitions[st]) : stateTransitions[st][e].probability >= 0
  /\ (TickedIn("CRUISE")
        /\ aircraft.behavior.data.rng > last.before.behavior.data.rng) =>
       \E e \in 1..Len(stateTransitions.CRUISE) :
         /\ RowSum(stateTransitions.CRUISE, e) * RngDen
              > stream[last.before.behavior.data.rng + 1] * 100
         /\ selectNextState("CRUISE", stream[last.before.behavior.data.rng + 1])
              = stateTransitions.CRUISE[e].nextState

\* a tick in CRUISE drew the highest number of the stream and it fell on the
\* last entry of the row
C26_Witness ==
  /\ TickedIn("CRUISE")
  /\ aircraft.behavior.data.rng > last.before.behavior.data.rng
  /\ stream[last.before.behavior.data.rng + 1] = 19
  /\ last.before.behavior.data.currentState # aircraft.behavior.data.currentState
  /\ RowSum(stateTransitions.CRUISE, Len(stateTransitions.CRUISE)) = 100

\* a row with the single entry st -> st of probability 1.0
SelfLoop(st) == <<[nextState |-> st, probability |-> 100]>>

\* C27: the transition table is CRUISE -> {CRUISE 0.95, TURNING 0.05}, and the
\* row of each of TURNING, CLIMBING, DESCENDING, APPROACH_TRANSIT and
\* FINAL_APPROACH is a single self-loop of probability 1.0: whatever state the
\* aircraft is in, the row of that state is as stated.
C27_OnlyCruiseRowBranches ==
  LET st == aircraft.behavior.data.currentState
  IN  stateTransitions[st] =
        IF st = "CRUISE"
        THEN <<[nextState |-> "CRUISE", probability |-> 95],
               [nextState |-> "TURNING", probability |-> 5]>>
        ELSE SelfLoop(st)

\* the numbers n / RngDen a generator handed to updateBehavior in the behavior
\* state can return when it does not keep below 1
CallerDraws == 0..RngDen

RECURSIVE FirstOrLast(_, _, _)
\* the next state of the first entry from index i on whose cumulative
\* probability exceeds the draw, and of the last entry when there is none
FirstOrLast(transitions, i, random) ==
  IF i >= Len(transitions) \/ RowSum(transitions, i) * RngDen > random * 100
  THEN transitions[i].nextState
  ELSE FirstOrLast(transitions, i + 1, random)

Returned ==
  CASE last.op = "tick" ->
         updateBehavior([last.before.behavior.data EXCEPT
                           !.position = [lon |-> last.before.position.lon,
                                         lat |-> last.before.position.lat]],
                        last.before.heading, last.before.altitude, last.elapsedSeconds,
                        now, stream \o <<5, 5>>).update
    [] last.op = "r" ->
         forceTurn(last.before.behavior.data, last.before.heading, now).update
    [] last.op = "l" ->
         forceLanding(last.before.behavior.data, last.before.altitude, now,
                      stream \o <<5>>).update
    [] last.op = "c" ->
         forceClimb(last.before.behavior.data, last.before.altitude, now).update
    [] last.op = "d" ->
         forceDescent(last.before.behavior.data, last.before.altitude, now).update
    [] last.op = "click" ->
         forceFlyTo(last.before.behavior.data, KBUF, now).update
    [] OTHER -> NoUpdate

\* every field the update record holds differs from what the aircraft before had
OnlyChanges(update, before) ==
  /\ IsDefined(update.newHeading) => Val(update.newHeading) # before.heading
  /\ IsDefined(update.newAltitude) => Val(update.newAltitude) # before.altitude
  /\ IsDefined(update.newGroundSpeed) => Val(update.newGroundSpeed) # before.groundSpeed
  /\ IsDefined(update.newState) => Val(update.newState) # before.behavior.data.currentState

\* C29: the update record returned by a tick or a forced command holds only
\* fields whose value changed in that step: newHeading only if the heading
\* differs from the heading passed in, newAltitude only if the altitude
\* differs, newGroundSpeed only if the speed differs, newState only if
\* currentState differs from the state before the step.
C29_UpdateHoldsOnlyChanges == OnlyChanges(Returned, last.before)

\* the last operation was a tick given a cruising aircraft that drew no
\* transition: the generator was not read, or the number read kept CRUISE
Quiet ==
  /\ TickedIn("CRUISE")
  /\ aircraft.behavior.data.rng <= last.before.behavior.data.rng + 1

\* C30: a tick changes the heading only while the aircraft turns toward a
\* targetHeading it is not yet on, in a TURNING state it was in before the tick
\* or that the tick's random draw entered; once the heading equals
\* targetHeading later ticks leave it alone.  A CRUISE tick in which no
\* transition is drawn changes none of heading, altitude, groundSpeed,
\* currentState, targetHeading, targetAltitude or approachPlan: only the
\* position (with the copy of it in the behavior state) and positionHistory
\* change, and the generator may have been read once.
C30_HeadingRestsOutsideTurns ==
  last.op = "tick" =>
    /\ aircraft.heading # last.before.heading =>
         \/ /\ last.before.behavior.data.currentState = "TURNING"
            /\ IsDefined(last.before.behavior.data.targetHeading)
            /\ Val(last.before.behavior.data.targetHeading) # last.before.heading
         \/ /\ last.before.behavior.data.currentState = "CRUISE"
            /\ aircraft.behavior.data.rng = last.before.behavior.data.rng + 2
    /\ Quiet =>
         aircraft = [last.before EXCEPT
                       !.position = aircraft.position,
                       !.positionHistory = aircraft.positionHistory,
                       !.behavior.data.position = aircraft.behavior.data.position,
                       !.behavior.data.rng = aircraft.behavior.data.rng]

\* an aircraft that has turned onto its target heading and is back in CRUISE
\* was given a tick, which moved it on the heading it had
C30_Witness ==
  /\ Quiet
  /\ "TURNING" \in visited
  /\ lastCmd.key = "r"
  /\ aircraft.heading = last.before.heading
  /\ aircraft.heading = JsMod(lastCmd.before.heading + 180, 360)
  /\ aircraft.position.lat # last.before.position.lat

\* C31: after every tick and every forced command as the radar's handlers
\* apply it, the public state tag behavior.state equals
\* behavior.data.currentState, also after a tick in which the state changes
\* twice (a random CRUISE -> TURNING and the completion of that turn).
C31_StateTagFollowsCurrentState ==
  aircraft.behavior.state = aircraft.behavior.data.currentState

\* a tick given a cruising aircraft drew TURNING and completed the turn in the
\* same call
C31_Witness ==
  /\ TickedIn("CRUISE")
  /\ aircraft.behavior.data.rng = last.before.behavior.data.rng + 2
  /\ aircraft.heading # last.before.heading
  /\ aircraft.behavior.data.currentState = "CRUISE"
  /\ aircraft.behavior.state = "CRUISE"

\* C32: starting from the aircraft of createTestAircraft (1500 ft), in every
\* state reached by ticks and forced commands the altitude is at least the
\* field elevation of 728 ft.
C32_AltitudeAtLeastFieldElevation == aircraft.altitude >= Ft(FIELD_ELEVATION)

\* a tick on final approach that would have taken the aircraft below the field
\* put it on the field elevation
C32_Witness ==
  /\ TickedIn("FINAL_APPROACH")
  /\ last.before.altitude > Ft(FIELD_ELEVATION)
  /\ last.before.altitude - (Ft(DESCENT_RATE) * last.elapsedSeconds) \div 60
       < Ft(FIELD_ELEVATION)
  /\ aircraft.altitude = Ft(FIELD_ELEVATION)

\* C33: in every state reached from the initial aircraft by ticks and forced
\* commands, whenever currentState is CRUISE the groundSpeed is the nominal
\* cruise speed of 95 kt.
C33_CruiseAtNominalSpeed ==
  aircraft.behavior.data.currentState = "CRUISE" => aircraft.groundSpeed = 95

\* C34: a tick given an aircraft in DESCENDING or FINAL_APPROACH never yields
\* an altitude higher than the altitude before the tick, and a tick given an
\* aircraft in CLIMBING never yields a lower one, in every state reached from
\* the initial aircraft.
C34_VerticalStatesMonotone ==
  /\ (TickedIn("DESCENDING") \/ TickedIn("FINAL_APPROACH")) =>
       aircraft.altitude <= last.before.altitude
  /\ TickedIn("CLIMBING") => aircraft.altitude >= last.before.altitude

\* C35: in every reachable state the data the state needs to make progress is
\* there: TURNING has a targetHeading, CLIMBING and DESCENDING have a
\* targetAltitude, APPROACH_TRANSIT and FINAL_APPROACH have an approachPlan.
C35_StateHasItsData ==
  LET data == aircraft.behavior.data
  IN  /\ data.currentState = "TURNING" => IsDefined(data.targetHeading)
      /\ data.currentState \in {"CLIMBING", "DESCENDING"} => IsDefined(data.targetAltitude)
      /\ data.currentState \in {"APPROACH_TRANSIT", "FINAL_APPROACH"} =>
           IsDefined(data.approachPlan)

\* a click turned an aircraft that had no target heading, and the turn has
\* the bearing to the clicked point to go to
C35_Witness ==
  /\ last.op = "click"
  /\ ~IsDefined(last.before.behavior.data.targetHeading)
  /\ aircraft.behavior.data.currentState = "TURNING"
  /\ IsDefined(aircraft.behavior.data.targetHeading)

\* the tick that brought the aircraft down to the runway: the plan is gone and
\* the climb to the circuit has begun
Landed ==
  /\ TickedIn("FINAL_APPROACH")
  /\ aircraft.altitude = Ft(FIELD_ELEVATION)
  /\ ~IsDefined(aircraft.behavior.data.approachPlan)
  /\ aircraft.behavior.data.currentState = "CLIMBING"

\* back in CRUISE at the circuit altitude
InCircuit ==
  /\ aircraft.behavior.data.currentState = "CRUISE"
  /\ aircraft.altitude = Ft(FIELD_ELEVATION + CIRCUIT_ALTITUDE)

\* C36: while the timer's ticks keep arriving and no further command is given,
\* an aircraft in a state other than CRUISE eventually returns to CRUISE; after
\* forceLanding it eventually reaches the runway elevation with its
\* approachPlan cleared, then climbs to the circuit altitude and re-enters
\* CRUISE.
C36_ManeuversEndInCruise ==
  /\ (aircraft.behavior.data.currentState # "CRUISE")
       ~> (aircraft.behavior.data.currentState = "CRUISE")
  /\ (last.op = "l") ~> Landed
  /\ Landed ~> InCircuit

\* the tick that completed the climb after a landing put the aircraft in
\* CRUISE at the circuit altitude
C36_Witness ==
  /\ lastCmd.key = "l"
  /\ TickedIn("CLIMBING")
  /\ "FINAL_APPROACH" \in visited
  /\ InCircuit
  /\ ~IsDefined(aircraft.behavior.data.approachPlan)

\* C37: updateAircraftPosition leaves the snapshot it was given unchanged:
\* after the call the input's heading, altitude, groundSpeed, position,
\* positionHistory, behavior.state and behavior.data have the values they had
\* before the call.
C37_TickLeavesInputUnchanged ==
  last.op = "tick" =>
    /\ given.heading = last.before.heading
    /\ given.altitude = last.before.altitude
    /\ given.groundSpeed = last.before.groundSpeed
    /\ given.position = last.before.position
    /\ given.positionHistory = last.before.positionHistory
    /\ given.behavior.state = last.before.behavior.state
    /\ given.behavior.data = last.before.behavior.data

\* ---------------------------------------------------------------------
\* The operations page and its flight-simulation worker
\* ---------------------------------------------------------------------

\* operations of the user on the operations page in one run
MaxPageOps == 3
\* firings of the worker's timer in one run
MaxSimTicks == 2

\* the worker's timer period, in ms
FLIGHT_UPDATE_INTERVAL == 1000
\* time the page stays closed before it is opened (again), in ms
AwaySet == {0, 3598000}

\* the stored flight plans, in the order getFlightPlans returns them; route is
\* the distance from departure to destination in nm, None when a coordinate of
\* either is missing; speed in kt, altitude in hundreds of feet
FlightPlans ==
  << [id |-> "FP1", status |-> "APPROVED", speed |-> 95, altitude |-> 45, route |-> Some(95)],
     [id |-> "FP2", status |-> "APPROVED", speed |-> 120, altitude |-> 30, route |-> Some(60)],
     [id |-> "FP3", status |-> "APPROVED", speed |-> 95, altitude |-> 45, route |-> None] >>

FlightIds == {FlightPlans[i].id : i \in DOMAIN FlightPlans}
PlanOf(flightId) == CHOOSE plan \in {FlightPlans[i] : i \in DOMAIN FlightPlans} : plan.id = flightId

radarVars == <<aircraft, now, stream, interval, ticks, cmds, last, lastCmd, twin, twinNow,
               visited, given>>

\* what reading a property an object does not have yields
undefined == "undefined"
Prop(obj, key) == IF key \in DOMAIN obj THEN obj[key] ELSE undefined

\* Map.prototype.set and Map.prototype.delete
MapSet(map, key, value) == [k \in DOMAIN map \cup {key} |-> IF k = key THEN value ELSE map[k]]
MapDelete(map, key) == [k \in DOMAIN map \ {key} |-> map[k]]

\* the flight time of a plan in seconds: totalDistance / groundSpeed hours
flightSeconds(plan) == (Val(plan.route) * 3600) \div plan.speed

\* the position of a flight at currentTime: the distance travelled along the
\* great circle from departure to destination (in 1/3600 nm, which fixes the
\* point turf.destination returns), the altitude in ft and the timestamp
calculatePosition(flight, currentTime) ==
  LET plan == flight.plan
      elapsed == Max(0, (currentTime - flight.startTime) \div 1000)
  IN  IF ~IsDefined(plan.route) THEN flight.currentPosition
      ELSE
        LET cruiseAltitude == plan.altitude * 100
            climbRate == 1000
            descentRate == 500
            descentStart == flightSeconds(plan) - (cruiseAltitude * 60) \div descentRate
            left == cruiseAltitude * 60 - descentRate * (elapsed - descentStart)
            currentAltitude ==
              IF elapsed * climbRate <= cruiseAltitude * 60
              THEN Min(RoundDiv(climbRate * elapsed, 60), cruiseAltitude)
              ELSE IF elapsed >= descentStart
              THEN (IF left <= 0 THEN 0 ELSE RoundDiv(left, 60))
              ELSE cruiseAltitude
        IN  [traveled |-> Min(Val(plan.route) * 3600, plan.speed * elapsed),
             altitude |-> currentAltitude,
             timestamp |-> currentTime]

\* one flight of the map after updateFlights' loop body
updated(flight, currentTime) ==
  IF ~IsDefined(flight.plan.route)
  THEN [flight EXCEPT !.currentPosition = calculatePosition(flight, currentTime)]
  ELSE IF currentTime - flight.startTime >= flightSeconds(flight.plan) * 1000
  THEN [flight EXCEPT !.completed = TRUE,
                      !.currentPosition = [traveled |-> Val(flight.plan.route) * 3600,
                                           altitude |-> 0,
                                           timestamp |-> currentTime]]
  ELSE [flight EXCEPT !.currentPosition = calculatePosition(flight, currentTime)]

\* what the worker reports of a flight
report(flight) == [position |-> flight.currentPosition, completed |-> flight.completed]

\* the worker posts a message to the page
posts(msg, listed) ==
  /\ toMain' = Append(toMain, msg)
  /\ lastPost' = [type |-> msg.type, ids |-> listed, withdrawn |-> withdrawn']

\* the worker's timer fires
updateFlights ==
  /\ mounted
  /\ simTicks < MaxSimTicks
  /\ simTicks' = simTicks + 1
  /\ clock' = clock + FLIGHT_UPDATE_INTERVAL
  /\ LET currentTime == clock'
         moving == {id \in DOMAIN activeFlights :
                      activeFlights[id].started /\ ~activeFlights[id].completed}
         reported == {id \in moving : IsDefined(activeFlights[id].plan.route)}
         after == [id \in DOMAIN activeFlights |->
                     IF id \in moving THEN updated(activeFlights[id], currentTime)
                     ELSE activeFlights[id]]
     IN  /\ activeFlights' = after
         /\ withdrawn' = withdrawn
         /\ IF reported # {}
            THEN posts([type |-> "positions",
                        updates |-> [id \in reported |-> report(after[id])]], reported)
            ELSE UNCHANGED <<toMain, lastPost>>
  /\ UNCHANGED <<mounted, localStorage, shownFlights, toWorker, pageOps, radarVars>>

\* the worker's 'message' listener handles the oldest message posted to it
WorkerActivate(data) ==
  LET flight == data.flight
      startTime == IF data.startTime # 0 THEN data.startTime ELSE clock
  IN  /\ withdrawn' = withdrawn \ {flight.id}
      /\ activeFlights' =
           IF ~IsDefined(flight.route) THEN activeFlights
           ELSE MapSet(activeFlights, flight.id,
                       [plan |-> flight,
                        currentPosition |-> [traveled |-> 0, altitude |-> 0,
                                             timestamp |-> startTime],
                        startTime |-> startTime,
                        started |-> TRUE,
                        completed |-> FALSE])
      /\ UNCHANGED <<toMain, lastPost>>

WorkerDeactivate(data) ==
  /\ withdrawn' = withdrawn \cup ({Prop(data, "flightId")} \cap FlightIds)
  /\ activeFlights' = MapDelete(activeFlights, Prop(data, "id"))
  /\ UNCHANGED <<toMain, lastPost>>

WorkerGetActive ==
  /\ withdrawn' = withdrawn
  /\ activeFlights' = activeFlights
  /\ posts([type |-> "activeFlights",
            flights |-> [id \in DOMAIN activeFlights |-> report(activeFlights[id])]],
           DOMAIN activeFlights)

WorkerReceives ==
  /\ mounted
  /\ toWorker # <<>>
  /\ toWorker' = Tail(toWorker)
  /\ LET msg == Head(toWorker)
     IN  \/ msg.type = "activate" /\ WorkerActivate(msg.data)
         \/ msg.type = "deactivate" /\ WorkerDeactivate(msg.data)
         \/ msg.type = "getActive" /\ WorkerGetActive
  /\ UNCHANGED <<mounted, clock, localStorage, shownFlights, simTicks, pageOps, radarVars>>

\* the page's onmessage handles the oldest message of the worker
PageReceives ==
  /\ mounted
  /\ toMain # <<>>
  /\ toMain' = Tail(toMain)
  /\ LET msg == Head(toMain)
         news == IF msg.type = "positions" THEN msg.updates ELSE msg.flights
     IN  shownFlights' = [id \in DOMAIN shownFlights |->
                            IF id \in DOMAIN news THEN news[id] ELSE shownFlights[id]]
  /\ UNCHANGED <<mounted, clock, localStorage, toWorker, activeFlights, simTicks, pageOps,
                 withdrawn, lastPost, radarVars>>

\* the 'activate' messages loadActiveFlightIds posts for the stored flights
restored(plans) ==
  LET stored == SelectSeq(plans, LAMBDA fp :
                   /\ fp.status = "APPROVED"
                   /\ fp.id \in localStorage.activeIds
                   /\ fp.id \in DOMAIN localStorage.activations
                   /\ localStorage.activations[fp.id] # 0)
  IN  [i \in 1..Len(stored) |->
         [type |-> "activate",
          data |-> [flight |-> stored[i], startTime |-> localStorage.activations[stored[i].id]]]]

\* the operations page is opened, or reloaded after some time: its effects
\* start a new worker, ask it for its flights, re-activate the stored flights
\* and load the approved plans
Mount(away) ==
  /\ pageOps < MaxPageOps
  /\ pageOps' = pageOps + 1
  /\ mounted' = TRUE
  /\ clock' = clock + away
  /\ activeFlights' = NoEntries
  /\ toMain' = <<>>
  /\ toWorker' = <<[type |-> "getActive"]>> \o restored(FlightPlans)
  /\ shownFlights' = [id \in {fid \in FlightIds : PlanOf(fid).status = "APPROVED"} |->
                        [position |-> None, completed |-> FALSE]]
  /\ withdrawn' = {}
  /\ lastPost' = [type |-> "none", ids |-> {}, withdrawn |-> {}]
  /\ UNCHANGED <<localStorage, simTicks, radarVars>>

activateFlight(flightId) ==
  /\ mounted
  /\ pageOps < MaxPageOps
  /\ PlanOf(flightId).status = "APPROVED"
  /\ flightId \notin localStorage.activeIds
  /\ pageOps' = pageOps + 1
  /\ LET startTime == clock
     IN  /\ localStorage' = [activeIds |-> localStorage.activeIds \cup {flightId},
                             activations |-> MapSet(localStorage.activations, flightId, startTime)]
         /\ toWorker' = Append(toWorker,
                          [type |-> "activate",
                           data |-> [flight |-> PlanOf(flightId), startTime |-> startTime]])
  /\ UNCHANGED <<mounted, clock, shownFlights, toMain, activeFlights, simTicks, withdrawn,
                 lastPost, radarVars>>

deactivateFlight(flightId) ==
  /\ mounted
  /\ pageOps < MaxPageOps
  /\ pageOps' = pageOps + 1
  /\ localStorage' = [activeIds |-> localStorage.activeIds \ {flightId},
                      activations |-> MapDelete(localStorage.activations, flightId)]
  /\ toWorker' = Append(toWorker, [type |-> "deactivate", data |-> [flightId |-> flightId]])
  /\ UNCHANGED <<mounted, clock, shownFlights, toMain, activeFlights, simTicks, withdrawn,
                 lastPost, radarVars>>

closeFlight(flightId) ==
  /\ mounted
  /\ pageOps < MaxPageOps
  /\ flightId \in DOMAIN shownFlights
  /\ pageOps' = pageOps + 1
  /\ shownFlights' = MapDelete(shownFlights, flightId)
  /\ localStorage' = [activeIds |-> localStorage.activeIds \ {flightId},
                      activations |-> MapDelete(localStorage.activations, flightId)]
  /\ UNCHANGED <<mounted, clock, toWorker, toMain, activeFlights, simTicks, withdrawn,
                 lastPost, radarVars>>

PageMounts == \E away \in AwaySet : Mount(away)
UserActivates == \E flightId \in FlightIds : activateFlight(flightId)
UserDeactivates == \E flightId \in FlightIds : deactivateFlight(flightId)
UserCloses == \E flightId \in FlightIds : closeFlight(flightId)

SimNext ==
  \/ PageMounts
  \/ UserActivates
  \/ UserDeactivates
  \/ UserCloses
  \/ updateFlights
  \/ WorkerReceives
  \/ PageReceives

SpecSim == Init /\ [][SimNext]_vars

\* C38: once the worker has handled the 'deactivate' message deactivateFlight
\* posted for a flight (and no later 'activate' for it), the worker no longer
\* holds the flight: it is not in the activeFlights map, and no 'positions'
\* update and no 'getActive' reply posted from then on lists it.
C38_DeactivatedFlightLeavesWorker ==
  /\ withdrawn \cap DOMAIN activeFlights = {}
  /\ lastPost.withdrawn \cap lastPost.ids = {}

====
